---- MODULE Spec2Model ----
(***************************************************************************)
(* Stub-based lazy model loading of lazy_model_loader.py: the Materializer *)
(* (create_stubs), the Resolver (resolve_stubs_for_prompt, download_model),*)
(* the Trigger Loop (start_model_watcher) and, as its environment, the     *)
(* serving process's job queue and the content store's fetch.              *)
(* SpecFn applies the functions of the module on their own, to arguments   *)
(* drawn from bounded sets: the two extractors, the category of a catalog  *)
(* path, create_stubs, scan_gdrive_for_models, main, one iteration of the  *)
(* watcher's loop, the Resolver on one path, and _build_direct_urls of     *)
(* runner_interface.py. SpecPair interleaves two Resolver calls.           *)
(***************************************************************************)
EXTENDS Integers, Sequences, FiniteSets, TLC

(* ------------------------------ bounds --------------------------------- *)
\* chunks of the non-empty store object
FullSize == 2
\* jobs the pending queue holds at once
MaxQueue == 2
\* entries of a catalog that create_stubs is applied to on its own
MaxEntries == 2
\* characters of a path in the store's listing
MaxPath == 4
\* characters of a store handle, where handles are written out
MaxId == 3
\* the largest retries of retry_with_backoff drawn
MaxRetries == 3
\* the number of updates of one SmartVastStatus
MaxUpdates == 3
\* the largest size of a file of the synced trees
MaxSize == 1

(* ----------------------- constants of the source ----------------------- *)
MODEL_SUBDIRS ==
    { "checkpoints", "clip", "clip_vision", "configs", "controlnet",
      "diffusers", "diffusion_models", "embeddings", "gligen",
      "hypernetworks", "loras", "model_patches", "style_models",
      "text_encoders", "unet", "upscale_models", "vae", "vae_approx",
      "audio_encoders", "latent_upscale_models", "photomaker" }

\* folder_aliases.get(subfolder, subfolder)
folder_aliases(s) ==
    CASE s = "text_encoders" -> "clip"
      [] s = "diffusion_models" -> "unet"
      [] OTHER -> s

\* str.lower() on the folder names of the model's catalogs
Lower(s) ==
    CASE s = "Checkpoints" -> "checkpoints"
      [] s = "CLIP" -> "clip"
      [] s = "Text_Encoders" -> "text_encoders"
      [] s = "TEXT_ENCODERS" -> "text_encoders"
      [] s = "Diffusion_Models" -> "diffusion_models"
      [] s = "UNet" -> "unet"
      [] s = "Junk" -> "junk"
      [] OTHER -> s

\* the node kinds of MODEL_NODES: kind -> <<model_type, key>>
MODEL_NODES_KINDS ==
    { "CheckpointLoaderSimple", "CheckpointLoader", "LoraLoader",
      "LoraLoaderModelOnly", "VAELoader", "ControlNetLoader",
      "UpscaleModelLoader", "CLIPLoader", "UNETLoader", "DualCLIPLoader" }

MODEL_NODES(k) ==
    CASE k = "CheckpointLoaderSimple" -> <<"checkpoints", "ckpt_name">>
      [] k = "CheckpointLoader" -> <<"checkpoints", "ckpt_name">>
      [] k = "LoraLoader" -> <<"loras", "lora_name">>
      [] k = "LoraLoaderModelOnly" -> <<"loras", "lora_name">>
      [] k = "VAELoader" -> <<"vae", "vae_name">>
      [] k = "ControlNetLoader" -> <<"controlnet", "control_net_name">>
      [] k = "UpscaleModelLoader" -> <<"upscale_models", "model_name">>
      [] k = "CLIPLoader" -> <<"clip", "clip_name">>
      [] k = "UNETLoader" -> <<"unet", "unet_name">>
      [] k = "DualCLIPLoader" -> <<"clip", "clip_name1">>

(* --------------------------- the content store ------------------------- *)
\* content handles (GDrive file ids); "h0" names an empty object
Handles == {"h1", "h0"}
NoMarker == "none"

ObjSize(h) == IF h = "h1" THEN FullSize ELSE 0
\* the bytes of the object behind handle h, one entry per chunk
Object(h) == [i \in 1..ObjSize(h) |-> h]

(* ---------------------------- the file system -------------------------- *)
\* os.path.join(MODELS_PATH, subfolder, filename), as <<subfolder, filename>>
LocalPaths == { <<"checkpoints", "a">>, <<"clip", "b">>, <<"junk", "a">> }

Absent == [exists |-> FALSE, data |-> <<>>]
Empty == [exists |-> TRUE, data |-> <<>>]

\* the catalogs a scan can return: sequences (dict order) of entries
Entry(parts, id) == [path |-> parts, id |-> id]
CatalogList ==
    << << Entry(<<"checkpoints", "a">>, "h1"), Entry(<<"text_encoders", "b">>, "h0") >>,
       << Entry(<<"CLIP", "b">>, "h0"), Entry(<<"junk", "a">>, "h1"),
          Entry(<<"root.bin">>, "h1") >>,
       << >> >>

(* ------------------------------- job specs ----------------------------- *)
\* an input value: a string, a link to another node, or (for .get) None
Str(v) == [t |-> "str", v |-> v]
Link == [t |-> "link", v |-> ""]
None == [t |-> "none", v |-> ""]
Node(kind, inputs) == [class_type |-> kind, inputs |-> inputs]

\* the job specs that are submitted: sequences (dict order) of nodes
JobSpecs ==
    << << Node("CheckpointLoaderSimple", [ckpt_name |-> Str("a")]),
          Node("KSampler", [model |-> Link]) >>,
       << Node("DualCLIPLoader", [clip_name1 |-> Str("b"), clip_name2 |-> Link]),
          Node("CheckpointLoader", [ckpt_name |-> Str("a")]) >> >>

\* a queue item: the job spec it carries (an index into JobSpecs) and whether a
\* tick has handed it to resolve_stubs_for_prompt
Item(s, b) == [spec |-> s, seen |-> b]
\* the running job: its item and the model paths it has still to open
Exec(item, todo) == [spec |-> item.spec, seen |-> item.seen, todo |-> todo]
Idle == Exec(Item(0, FALSE), <<>>)
VARIABLES
    file,       \* LocalPaths -> [exists, data]: the model files
    marker,     \* LocalPaths -> handle text of <path>.stub, or NoMarker
    created,    \* the created count of the create_stubs that has just returned
    lastCat,    \* index of that create_stubs's catalog, 0 once anything ran since
    again,      \* that create_stubs came right after one on the same catalog
    pending,    \* queue_pending of the serving process: items, oldest first
    running,    \* the job the serving process executes, Idle when none
    pcW,        \* the watcher: "off" | "sleep" | "fetch"
    last,       \* last_queue_remaining
    nSeen,      \* len(pending) of the tick in progress
    work,       \* the stubs and later references of the tick still to resolve
    fOpen,      \* the fetch in progress has opened its destination
    fId,        \* file_id of the download_model in progress
    sizeBefore, \* size_before of the download_model in progress
    ret,        \* the result of the download_model that has just returned,
                \* "true" | "false"; "none" once anything ran since
    audit,      \* whether the two history variables below are kept
    failed,     \* the paths whose last download_model returned False
    owed,       \* failed paths a job submitted since refers to, no fetch tried since
    arg,        \* the function applied on its own and its arguments, NoArg when none
    res         \* what that application returned, NoRes before it has

fsVars == <<file, marker>>
srvVars == <<pending, running>>
tickVars == <<pcW, last, nSeen, work, fOpen, fId, sizeBefore>>
fnVars == <<arg, res>>
progVars == <<file, marker, created, lastCat, again, pending, running, pcW, last,
              nSeen, work, fOpen, fId, sizeBefore, ret, audit, failed, owed>>
vars == <<file, marker, created, lastCat, again, pending, running, pcW, last,
          nSeen, work, fOpen, fId, sizeBefore, ret, audit, failed, owed, arg, res>>

\* no function is applied on its own
NoArg == [fn |-> "none"]
NoRes == [fn |-> "none"]

(* ------------------------ scan_gdrive_for_models ----------------------- *)
\* a path of the listing is a sequence of characters; line 63, replace
ReplaceBackslash(path) ==
    [i \in 1..Len(path) |-> IF path[i] = "\\" THEN "/" ELSE path[i]]

\* line 63, str.lstrip(chars): every leading character that is in chars goes
RECURSIVE LStrip(_, _)
LStrip(path, chars) ==
    IF path # <<>> /\ Head(path) \in chars THEN LStrip(Tail(path), chars)
    ELSE path

\* line 63: clean_path
clean_path(path) == LStrip(ReplaceBackslash(path), {".", "/"})

\* a url is a sequence of pieces, "id=" one of them; line 64: 'id=' in f.url
HasId(url) == \E i \in 1..Len(url) : url[i] = "id="

\* line 65: f.url.split('id=')[-1], what follows the last "id="
RECURSIVE AfterLastId(_)
AfterLastId(url) ==
    IF HasId(Tail(url)) THEN AfterLastId(Tail(url)) ELSE Tail(url)

\* line 66: result[clean_path] = f_id on a dict kept as a sequence of items
DictPut(dict, key, val) ==
    IF \E i \in 1..Len(dict) : dict[i].path = key
    THEN [i \in 1..Len(dict) |->
            IF dict[i].path = key THEN [path |-> key, id |-> val] ELSE dict[i]]
    ELSE Append(dict, [path |-> key, id |-> val])

\* a listed object without the attributes path and url (line 62)
NoAttrs == [noattrs |-> TRUE]

\* lines 60-67: the loop over the files of a listing
RECURSIVE ScanFiles(_, _)
ScanFiles(files, result) ==
    IF files = <<>> THEN result
    ELSE LET f == Head(files)
         IN IF "noattrs" \in DOMAIN f \/ ~HasId(f.url)
            THEN ScanFiles(Tail(files), result)
            ELSE ScanFiles(Tail(files),
                           DictPut(result, clean_path(f.path), AfterLastId(f.url)))

\* what gdown.download_folder does: it raises, returns None, or returns files
Raises == [kind |-> "raise", files |-> <<>>]
ReturnsNone == [kind |-> "none", files |-> <<>>]
Lists(files) == [kind |-> "files", files |-> files]

\* the scan with no except branch: what the listing raises leaves the function
ScanNoCatch(gdown, listing) ==
    IF ~gdown \/ listing.kind # "files" THEN [result |-> <<>>, raised |-> TRUE]
    ELSE [result |-> ScanFiles(listing.files, <<>>), raised |-> FALSE]

\* lines 50-70. import gdown (line 55) is outside the try: without the module
\* the ImportError leaves the function. Inside it, a listing that raises, or
\* None that cannot be iterated, ends in the except branch: {} is returned
scan_gdrive_for_models(gdown, listing) ==
    IF ~gdown THEN [result |-> <<>>, raised |-> TRUE]
    ELSE IF listing.kind # "files" THEN [result |-> <<>>, raised |-> FALSE]
    ELSE [result |-> ScanFiles(listing.files, <<>>), raised |-> FALSE]

(* ------------------------------ create_stubs --------------------------- *)
\* the category with the alias table applied before lower-casing
CategoryAliasFirst(parts) ==
    IF Len(parts) < 2 THEN ""
    ELSE LET subfolder == Lower(folder_aliases(parts[1]))
         IN IF subfolder \in MODEL_SUBDIRS THEN subfolder ELSE ""

\* the category without the check against MODEL_SUBDIRS
CategoryAny(parts) ==
    IF Len(parts) < 2 THEN "" ELSE folder_aliases(Lower(parts[1]))

\* lines 84-99: the category of a catalog path, "" when rejected
Category(parts) ==
    IF Len(parts) < 2 THEN ""
    ELSE LET subfolder == folder_aliases(Lower(parts[1]))
         IN IF subfolder \in MODEL_SUBDIRS THEN subfolder ELSE ""

\* lines 101-102: local_file of an accepted entry (filename = parts[1:] joined)
LocalFile(parts) == <<Category(parts)>> \o Tail(parts)

\* create_stubs without the check for a real file
NeverSkip(f, m, p) == FALSE

\* create_stubs passing over a real file only when its marker is there
SkipIfMarked(f, m, p) ==
    f[p].exists /\ Len(f[p].data) > 0 /\ m[p] # NoMarker

\* create_stubs passing over any file that exists, stubs too
SkipExisting(f, m, p) == f[p].exists

\* lines 106-108: a real file from a previous download is left alone
SkipRealFile(f, m, p) ==
    f[p].exists /\ Len(f[p].data) > 0 /\ m[p] = NoMarker

\* lines 82-122: the loop of create_stubs from entry i on
RECURSIVE CreateStubsFrom(_, _, _)
CreateStubsFrom(st, cat, i) ==
    IF i > Len(cat) THEN st
    ELSE LET e == cat[i]
         IN IF Category(e.path) = "" THEN CreateStubsFrom(st, cat, i + 1)
            ELSE LET p == LocalFile(e.path)
                 IN IF SkipRealFile(st.file, st.marker, p)
                    THEN CreateStubsFrom(st, cat, i + 1)
                    ELSE CreateStubsFrom(
                           [file |-> [st.file EXCEPT ![p] = Empty],
                            marker |-> [st.marker EXCEPT ![p] = e.id],
                            created |-> st.created + 1],
                           cat, i + 1)

create_stubs(f, m, cat) ==
    CreateStubsFrom([file |-> f, marker |-> m, created |-> 0], cat, 1)

(* ------------------------ resolve_stubs_for_prompt --------------------- *)
\* inputs.get(key)
Get(inputs, key) == IF key \in DOMAIN inputs THEN inputs[key] ELSE None

\* keys_to_check taking a node of any other kind for a checkpoint loader
KeysToCheckAnyKind(kind) ==
    (IF kind \in MODEL_NODES_KINDS THEN <<MODEL_NODES(kind)>>
     ELSE << <<"checkpoints", "ckpt_name">> >>)
    \o (IF kind = "DualCLIPLoader" THEN << <<"clip", "clip_name2">> >> ELSE <<>>)

\* keys_to_check without the second key of DualCLIPLoader
KeysToCheckTableOnly(kind) ==
    IF kind \in MODEL_NODES_KINDS THEN <<MODEL_NODES(kind)>> ELSE <<>>

\* lines 293-299: keys_to_check of a node
KeysToCheck(kind) ==
    (IF kind \in MODEL_NODES_KINDS THEN <<MODEL_NODES(kind)>> ELSE <<>>)
    \o (IF kind = "DualCLIPLoader" THEN << <<"clip", "clip_name2">> >> ELSE <<>>)

\* the loop of lines 301-304 with "if name:" in place of line 303
RECURSIVE NodeRefsAnyValue(_, _)
NodeRefsAnyValue(node, keys) ==
    IF keys = <<>> THEN <<>>
    ELSE LET name == Get(node.inputs, Head(keys)[2])
         IN (IF name.t = "link" \/ (name.t = "str" /\ name.v # "")
             THEN << <<Head(keys)[1], name.v>> >> ELSE <<>>)
            \o NodeRefsAnyValue(node, Tail(keys))

\* lines 301-304: the local paths a node refers to, in the order of its keys
RECURSIVE NodeRefs(_, _)
NodeRefs(node, keys) ==
    IF keys = <<>> THEN <<>>
    ELSE LET name == Get(node.inputs, Head(keys)[2])
         IN (IF name.t = "str" /\ name.v # ""
             THEN << <<Head(keys)[1], name.v>> >> ELSE <<>>)
            \o NodeRefs(node, Tail(keys))

\* line 288: isinstance(node, dict); a node that is no dict is [notdict |-> TRUE]
IsDict(x) == "notdict" \notin DOMAIN x

\* lines 287-304: the loop over the nodes of a prompt. refs are the local paths
\* it looks at, in order; a node that is no dict is passed over; inputs that
\* are no dict make inputs.get raise (line 302, outside the try of line 307),
\* which ends the loop
RECURSIVE ResolvePrompt(_)
ResolvePrompt(prompt) ==
    IF prompt = <<>> THEN [refs |-> <<>>, raised |-> FALSE]
    ELSE LET node == Head(prompt)
         IN IF ~IsDict(node) THEN ResolvePrompt(Tail(prompt))
            ELSE LET keys == KeysToCheck(node.class_type)
                 IN IF keys # <<>> /\ ~IsDict(node.inputs)
                    THEN [refs |-> <<>>, raised |-> TRUE]
                    ELSE LET r == ResolvePrompt(Tail(prompt))
                         IN [refs |-> NodeRefs(node, keys) \o r.refs,
                             raised |-> r.raised]

\* the local paths of a prompt, in the order they are looked at
PromptRefs(prompt) == ResolvePrompt(prompt).refs

(* ----------------------- resolve_stubs_for_workflow -------------------- *)
\* "if name": None, "" are false, a non-empty string or a link (a list) true
Truthy(name) == name.t = "link" \/ (name.t = "str" /\ name.v # "")

\* lines 202-207: the reference of a node through MODEL_NODES
WorkflowTableRefs(node) ==
    IF node.class_type \in MODEL_NODES_KINDS
    THEN LET mk == MODEL_NODES(node.class_type)
             name == Get(node.inputs, mk[2])
         IN IF Truthy(name) /\ name.t = "str" THEN { <<mk[1], name.v>> } ELSE {}
    ELSE {}

\* lines 210-215: the truthy values of the two inputs of a DualCLIPLoader
WorkflowDualNames(node) ==
    IF node.class_type = "DualCLIPLoader"
    THEN { name \in { Get(node.inputs, k) : k \in {"clip_name1", "clip_name2"} } :
             Truthy(name) }
    ELSE {}

\* lines 199-215 raise on this node: node.get on a node that is no dict,
\* inputs.get on inputs that are no dict, os.path.join on a name that is no str
WorkflowNodeRaises(node) ==
    \/ ~IsDict(node)
    \/ /\ ~IsDict(node.inputs)
       /\ node.class_type \in MODEL_NODES_KINDS
    \/ /\ IsDict(node.inputs)
       /\ \E name \in WorkflowDualNames(node) : name.t # "str"

\* lines 196-215: needed_models of a workflow; when a node raises nothing is
\* resolved, the exception leaves resolve_stubs_for_workflow
WorkflowRefs(workflow) ==
    IF \E i \in 1..Len(workflow) : WorkflowNodeRaises(workflow[i])
    THEN [refs |-> {}, raised |-> TRUE]
    ELSE [refs |-> UNION { WorkflowTableRefs(workflow[i])
                             \cup { <<"clip", name.v>> :
                                       name \in WorkflowDualNames(workflow[i]) } :
                           i \in 1..Len(workflow) },
          raised |-> FALSE]

(* ------------------- analyze_workflow (vastai_runner.py) --------------- *)
\* vastai_runner.py lines 82-93: MODEL_NODES there is the table of
\* lazy_model_loader.py, entry by entry
\* lines 345-350: the reference of a node through MODEL_NODES
AnalyzeTableRefs(node) ==
    IF node.class_type \in MODEL_NODES_KINDS
    THEN LET mk == MODEL_NODES(node.class_type)
             name == Get(node.inputs, mk[2])
         IN IF Truthy(name) /\ name.t = "str" THEN { <<mk[1], name.v>> } ELSE {}
    ELSE {}

\* lines 353-358: the truthy values of the two inputs of a DualCLIPLoader
AnalyzeDualNames(node) ==
    IF node.class_type = "DualCLIPLoader"
    THEN { name \in { Get(node.inputs, k) : k \in {"clip_name1", "clip_name2"} } :
             Truthy(name) }
    ELSE {}

\* lines 341-358 raise on this node: node.get on a node that is no dict,
\* inputs.get on inputs that are no dict, set.add of a link, which is a list
AnalyzeNodeRaises(node) ==
    \/ ~IsDict(node)
    \/ /\ ~IsDict(node.inputs)
       /\ node.class_type \in MODEL_NODES_KINDS
    \/ /\ IsDict(node.inputs)
       /\ \E name \in AnalyzeDualNames(node) : name.t = "link"

\* lines 338-362: required, as pairs of model type and name; the loop is in no
\* try, an exception leaves analyze_workflow
analyze_workflow(workflow) ==
    IF \E i \in 1..Len(workflow) : AnalyzeNodeRaises(workflow[i])
    THEN [refs |-> {}, raised |-> TRUE]
    ELSE [refs |-> UNION { AnalyzeTableRefs(workflow[i])
                             \cup { <<"clip", name.v>> :
                                       name \in AnalyzeDualNames(workflow[i]) } :
                           i \in 1..Len(workflow) },
          raised |-> FALSE]

\* lines 257-262: the references of every pending item, in queue order
RECURSIVE PendingRefs(_)
PendingRefs(q) ==
    IF q = <<>> THEN <<>>
    ELSE PromptRefs(JobSpecs[Head(q).spec]) \o PendingRefs(Tail(q))

\* lines 166-168
is_stub(m, p) == m[p] # NoMarker

\* line 305: the references that are no stub are passed over; w from its first
\* stub on
RECURSIVE SkipToStub(_, _)
SkipToStub(w, m) ==
    IF w = <<>> THEN <<>>
    ELSE IF is_stub(m, Head(w)) THEN w ELSE SkipToStub(Tail(w), m)

\* the string of a sequence of characters or of pieces of a url
RECURSIVE Name(_)
Name(cs) == IF cs = <<>> THEN "" ELSE Head(cs) \o Name(Tail(cs))

\* str.strip() without argument takes these away at both ends
Whitespace == { " ", "\t", "\n", "\r" }

\* str.rstrip(chars)
RECURSIVE RStrip(_, _)
RStrip(cs, chars) ==
    IF cs # <<>> /\ cs[Len(cs)] \in chars THEN RStrip(SubSeq(cs, 1, Len(cs) - 1), chars)
    ELSE cs

\* a strip that takes "-" and "_" for white space
StripDashes(cs) ==
    RStrip(LStrip(cs, Whitespace \cup {"-", "_"}), Whitespace \cup {"-", "_"})

\* lines 309, 223: .strip() of a marker's content, a sequence of characters
strip(cs) == RStrip(LStrip(cs, Whitespace), Whitespace)

\* file_id = f.read().strip() on a marker whose content is one name of the
\* model's store
Strip(s) == Name(strip(<<s>>))

\* line 136
SizeOf(f, p) == IF f[p].exists THEN Len(f[p].data) ELSE 0

Range(q) == { q[i] : i \in 1..Len(q) }

\* the state before main() has run on an empty models folder
InitWith(a) ==
    /\ audit = a
    /\ file = [p \in LocalPaths |-> Absent]
    /\ marker = [p \in LocalPaths |-> NoMarker]
    /\ created = 0
    /\ lastCat = 0
    /\ again = FALSE
    /\ pending = <<>>
    /\ running = Idle
    /\ pcW = "off"
    /\ last = 0
    /\ nSeen = 0
    /\ work = <<>>
    /\ fOpen = FALSE
    /\ fId = NoMarker
    /\ sizeBefore = 0
    /\ ret = "none"
    /\ failed = {}
    /\ owed = {}

Init == InitWith(FALSE) /\ arg = NoArg /\ res = NoRes
InitAudit == InitWith(TRUE) /\ arg = NoArg /\ res = NoRes

\* neither create_stubs nor download_model has just returned
NotBoot == created' = 0 /\ lastCat' = 0 /\ again' = FALSE /\ UNCHANGED fnVars
Quiet == NotBoot /\ ret' = "none" /\ UNCHANGED audit

(* -------------------------------- main() ------------------------------- *)
\* lines 335-357, on a fresh container or after the process was killed and the
\* container started again: create_stubs on the scanned catalog, then the
\* serving process and the watcher start afresh
Boot(c) ==
    /\ LET r == create_stubs(file, marker, CatalogList[c])
       IN /\ file' = r.file
          /\ marker' = r.marker
          /\ created' = r.created
    /\ lastCat' = c
    /\ again' = (lastCat = c)
    /\ pending' = <<>>
    /\ running' = Idle
    /\ pcW' = "sleep"
    /\ last' = 0
    /\ nSeen' = 0
    /\ work' = <<>>
    /\ fOpen' = FALSE
    /\ fId' = NoMarker
    /\ sizeBefore' = 0
    /\ ret' = "none"
    /\ failed' = {}
    /\ owed' = {}
    /\ UNCHANGED <<audit, fnVars>>

(* --------------------------- the serving process ----------------------- *)
\* a client posts job spec s: it joins queue_pending
Submit(s) ==
    /\ pcW # "off"
    /\ Len(pending) < MaxQueue
    /\ pending' = Append(pending, Item(s, FALSE))
    /\ owed' = owed \cup (failed \cap Range(PromptRefs(JobSpecs[s])))
    /\ Quiet
    /\ UNCHANGED <<fsVars, running, tickVars, failed>>

\* the idle executor takes the oldest pending job: it leaves queue_pending; its
\* loader nodes will open the model paths it refers to
Start ==
    /\ running = Idle
    /\ pending # <<>>
    /\ running' = Exec(Head(pending), PromptRefs(JobSpecs[Head(pending).spec]))
    /\ pending' = Tail(pending)
    /\ Quiet
    /\ UNCHANGED <<fsVars, tickVars, failed, owed>>

\* what an open of path p finds
Found(f, m, p) ==
    IF ~f[p].exists THEN "missing"
    ELSE IF f[p].data = <<>> /\ m[p] # NoMarker THEN "stub"
    ELSE IF f[p].data # <<>> /\ Len(f[p].data) < ObjSize(f[p].data[1]) THEN "partial"
    ELSE "whole"

\* the running job's next loader node opens its model path
Open ==
    /\ running # Idle
    /\ running.todo # <<>>
    /\ running' = [running EXCEPT !.todo = Tail(@)]
    /\ Quiet
    /\ UNCHANGED <<fsVars, pending, tickVars, failed, owed>>

\* the running job ends, with its models loaded or on an error
Complete ==
    /\ running # Idle
    /\ running' = Idle
    /\ Quiet
    /\ UNCHANGED <<fsVars, pending, tickVars, failed, owed>>

(* --------------------------- start_model_watcher ----------------------- *)
\* lines 134-143: download_model on the first stub of w starts
StartDownload(w) ==
    /\ fId' = Strip(marker[Head(w)])
    /\ sizeBefore' = SizeOf(file, Head(w))
    /\ fOpen' = FALSE
    /\ pcW' = "fetch"
    /\ owed' = owed \ {Head(w)}

\* a tick that only sets last_queue_remaining, whatever the queue holds
WPollNoTrigger ==
    /\ pcW = "sleep"
    /\ last' = Len(pending)
    /\ Quiet
    /\ UNCHANGED <<fsVars, srvVars, work, nSeen, pcW, fOpen, fId, sizeBefore,
                   failed, owed>>

\* lines 250-264, a tick whose GET /queue answers. When the queue grew, every
\* pending item is handed to resolve_stubs_for_prompt: the download of the
\* first stub they refer to starts, and with no stub the tick is over at once.
\* Otherwise only last_queue_remaining is set.
WPoll ==
    /\ pcW = "sleep"
    /\ IF pending # <<>> /\ Len(pending) > last
       THEN /\ pending' = [i \in 1..Len(pending) |-> Item(pending[i].spec, TRUE)]
            /\ work' = SkipToStub(PendingRefs(pending), marker)
            /\ IF work' # <<>>
               THEN /\ StartDownload(work')
                    /\ nSeen' = Len(pending)
                    /\ last' = last
               ELSE /\ last' = Len(pending)
                    /\ UNCHANGED <<nSeen, pcW, fOpen, fId, sizeBefore, owed>>
       ELSE /\ last' = Len(pending)
            /\ UNCHANGED <<work, pending, nSeen, pcW, fOpen, fId, sizeBefore, owed>>
    /\ Quiet
    /\ UNCHANGED <<fsVars, running, failed>>

\* lines 301-312 and 264 after a download_model returned: on to the next stub
\* of the tick, or, after the last pending item, last_queue_remaining is set
NextRef(m) ==
    /\ work' = SkipToStub(Tail(work), m)
    /\ IF work' # <<>>
       THEN /\ StartDownload(work')
            /\ UNCHANGED <<last, nSeen>>
       ELSE /\ last' = nSeen
            /\ pcW' = "sleep"
            /\ nSeen' = 0
            /\ fOpen' = FALSE
            /\ fId' = NoMarker
            /\ sizeBefore' = 0
            /\ owed' = owed

(* ------------------- download_model: the store's fetch ----------------- *)
\* line 148: the fetch opens its destination local_path for writing
FetchOpen ==
    /\ pcW = "fetch"
    /\ ~fOpen
    /\ file' = [file EXCEPT ![Head(work)] = Empty]
    /\ fOpen' = TRUE
    /\ Quiet
    /\ UNCHANGED <<marker, srvVars, pcW, last, nSeen, work, fId, sizeBefore,
                   failed, owed>>

\* line 148: the fetch writes the next chunk of the object to local_path
FetchChunk ==
    /\ pcW = "fetch"
    /\ fOpen
    /\ Len(file[Head(work)].data) < ObjSize(fId)
    /\ file' = [file EXCEPT ![Head(work)].data = Append(@, fId)]
    /\ Quiet
    /\ UNCHANGED <<marker, srvVars, tickVars, failed, owed>>

\* download_model returning True with the marker left in place
FetchDoneKeepsMarker ==
    /\ pcW = "fetch"
    /\ fOpen
    /\ Len(file[Head(work)].data) = ObjSize(fId)
    /\ ret' = "true"
    /\ failed' = failed \ {Head(work)}
    /\ NextRef(marker)
    /\ NotBoot
    /\ UNCHANGED audit
    /\ UNCHANGED <<file, marker, srvVars>>

\* lines 150-160: the fetch returned; the marker is removed, True is returned
FetchDone ==
    /\ pcW = "fetch"
    /\ fOpen
    /\ Len(file[Head(work)].data) = ObjSize(fId)
    /\ marker' = [marker EXCEPT ![Head(work)] = NoMarker]
    /\ ret' = "true"
    /\ failed' = failed \ {Head(work)}
    /\ NextRef(marker')
    /\ NotBoot
    /\ UNCHANGED audit
    /\ UNCHANGED <<file, srvVars>>

\* lines 161-163: the fetch raised, before or after it wrote; False is returned
FetchFail ==
    /\ pcW = "fetch"
    /\ ret' = "false"
    /\ failed' = IF audit THEN failed \cup {Head(work)} ELSE failed
    /\ NextRef(marker)
    /\ NotBoot
    /\ UNCHANGED audit
    /\ UNCHANGED <<fsVars, srvVars>>

Next ==
    \/ \E c \in 1..Len(CatalogList) : Boot(c)
    \/ \E s \in 1..Len(JobSpecs) : Submit(s)
    \/ Start
    \/ Open
    \/ Complete
    \/ WPoll
    \/ FetchOpen
    \/ FetchChunk
    \/ FetchDone
    \/ FetchFail

Spec == Init /\ [][Next]_vars

\* the same program, with the history of failed downloads kept
SpecAudit == InitAudit /\ [][Next]_vars

(* ================== the functions, applied on their own ================ *)
\* the values of an input of a node: absent or null, "", a name, a link
Values == { None, Str(""), Str("a"), Str("b"), Link }
NodeKeys == { "ckpt_name", "clip_name1", "clip_name2" }
NotADict == [notdict |-> TRUE]
\* the node kinds drawn; "" is a node without class_type
Kinds == { "CheckpointLoaderSimple", "CheckpointLoader", "DualCLIPLoader", "KSampler", "" }
Nodes == { Node(k, i) : k \in Kinds, i \in [NodeKeys -> Values] \cup {NotADict} }
         \cup {NotADict}
\* a few nodes to go with another one in a prompt of two
FewNodes ==
    { Node("KSampler", NotADict), NotADict,
      Node("", [k \in NodeKeys |-> Str("a")]),
      Node("CheckpointLoaderSimple", [k \in NodeKeys |-> Str("b")]),
      Node("CheckpointLoaderSimple", [k \in NodeKeys |-> Link]),
      Node("DualCLIPLoader", [k \in NodeKeys |-> None]) }
Prompts ==
    { <<n>> : n \in Nodes } \cup { <<n, m>> : n \in FewNodes, m \in FewNodes }

\* the local paths the drawn prompts can name, and the marker states drawn
FnPaths == { "checkpoints", "clip" } \X { "", "a", "b" }
MarkerStates ==
    { [p \in FnPaths |-> IF p \in S THEN "h1" ELSE NoMarker] :
        S \in { {}, { <<"checkpoints", "a">> }, FnPaths } }

ExtractArgs ==
    { [fn |-> "extract", prompt |-> pr, marker |-> m] :
        pr \in Prompts, m \in MarkerStates }

\* resolve_stubs_for_prompt, resolve_stubs_for_workflow and analyze_workflow on
\* arg.prompt: the paths each looks at, whether it raises, and the references
\* from the first stub on, whose head is the first download_model call
Extract ==
    /\ arg.fn = "extract"
    /\ res = NoRes
    /\ res' = [fn |-> "extract",
               refs |-> ResolvePrompt(arg.prompt).refs,
               raised |-> ResolvePrompt(arg.prompt).raised,
               work |-> SkipToStub(ResolvePrompt(arg.prompt).refs, arg.marker),
               wf |-> WorkflowRefs(arg.prompt),
               an |-> analyze_workflow(arg.prompt)]
    /\ UNCHANGED <<arg, progVars>>

\* the first segments and the rest of the catalog paths drawn
Folders ==
    { "text_encoders", "Text_Encoders", "TEXT_ENCODERS", "clip", "CLIP",
      "diffusion_models", "Diffusion_Models", "unet", "UNet",
      "checkpoints", "Checkpoints", "junk", "Junk" }
Rests == { <<"a">>, <<"b">>, <<"sub", "a">> }
ResolveArgs ==
    { [fn |-> "resolve", parts |-> <<f>> \o r] : f \in Folders, r \in Rests }
    \cup { [fn |-> "resolve", parts |-> <<f>>] : f \in {"clip", "root.bin"} }

\* lines 84-102 on arg.parts: the category and the local file of a catalog path
Resolve ==
    /\ arg.fn = "resolve"
    /\ res = NoRes
    /\ res' = [fn |-> "resolve",
               category |-> Category(arg.parts),
               local |-> IF Category(arg.parts) = "" THEN <<>>
                         ELSE LocalFile(arg.parts)]
    /\ UNCHANGED <<arg, progVars>>

\* the catalogs drawn: up to MaxEntries entries, no rel_path twice (a dict)
EntryPaths ==
    { <<"checkpoints", "a">>, <<"Checkpoints", "a">>, <<"text_encoders", "b">>,
      <<"clip", "b">>, <<"junk", "a">>, <<"root.bin">> }
Entries == { Entry(p, h) : p \in EntryPaths, h \in Handles }
Catalogs ==
    UNION { { c \in [1..n -> Entries] :
                \A i, j \in 1..n : c[i].path = c[j].path => i = j } :
            n \in 0..MaxEntries }

\* the states of a slot drawn: absent, stub, interrupted download, real file,
\* empty file without marker
SlotStates ==
    { [f |-> Absent, m |-> NoMarker],
      [f |-> Empty, m |-> "h1"],
      [f |-> [exists |-> TRUE, data |-> <<"h1">>], m |-> "h1"],
      [f |-> [exists |-> TRUE, data |-> Object("h1")], m |-> NoMarker],
      [f |-> Empty, m |-> NoMarker] }
StubArgs ==
    { [fn |-> "create_stubs", cat |-> c,
       file |-> [p \in LocalPaths |->
                   IF p = <<"checkpoints", "a">> THEN s1.f
                   ELSE IF p = <<"clip", "b">> THEN s2.f ELSE Absent],
       marker |-> [p \in LocalPaths |->
                   IF p = <<"checkpoints", "a">> THEN s1.m
                   ELSE IF p = <<"clip", "b">> THEN s2.m ELSE NoMarker]] :
        c \in Catalogs, s1 \in SlotStates, s2 \in SlotStates }

\* create_stubs(arg.cat) on the models folder arg.file, arg.marker
Materialize ==
    /\ arg.fn = "create_stubs"
    /\ res = NoRes
    /\ LET r == create_stubs(arg.file, arg.marker, arg.cat)
       IN res' = [fn |-> "create_stubs", file |-> r.file, marker |-> r.marker,
                  created |-> r.created]
    /\ UNCHANGED <<arg, progVars>>

\* the paths of the store drawn: relative, of up to MaxPath characters, the
\* last one a character of the file's name
PathChars == { ".", "/", "\\", "x" }
StorePaths ==
    UNION { { p \in [1..n -> PathChars] :
                p[1] \notin {"/", "\\"} /\ p[n] = "x" } :
            n \in 1..MaxPath }
Urls ==
    { <<"https://drive.google.com/uc?", "id=", "h1">>,
      <<"https://drive.google.com/file/d/h1/view">> }
ListedFiles == { [path |-> p, url |-> u] : p \in StorePaths, u \in Urls }
\* the listings drawn: one that raises, None, no file, one file, and a few of two
Listings ==
    { Raises, ReturnsNone, Lists(<<>>) }
    \cup { Lists(<<f>>) : f \in ListedFiles \cup {NoAttrs} }
    \cup { Lists(<<f, g>>) :
             f \in { [path |-> <<"x", "/", "x">>, url |-> u] : u \in Urls }
                   \cup {NoAttrs},
             g \in { [path |-> p, url |-> <<"uc?", "id=", "h0">>] :
                       p \in { <<".", "/", "x", "/", "x">>, <<"x", "\\", "x">>,
                               <<"x", "/", ".", "x">> } } }
ScanArgs ==
    { [fn |-> "scan", gdown |-> g, listing |-> l] : g \in BOOLEAN, l \in Listings }

\* scan_gdrive_for_models(folder_id) with the store answering arg.listing
Scan ==
    /\ arg.fn = "scan"
    /\ res = NoRes
    /\ LET r == scan_gdrive_for_models(arg.gdown, arg.listing)
       IN res' = [fn |-> "scan", result |-> r.result, raised |-> r.raised]
    /\ UNCHANGED <<arg, progVars>>

(* -------------------------------- main() ------------------------------- *)
\* line 84, rel_path.split("/"): the segments between the separators, as
\* sequences of characters; "a//b" has an empty one, "" is one empty segment
RECURSIVE Split(_)
Split(path) ==
    IF path = <<>> THEN << <<>> >>
    ELSE LET rest == Split(Tail(path))
         IN IF Head(path) = "/" THEN << <<>> >> \o rest
            ELSE << <<Head(path)>> \o Head(rest) >> \o Tail(rest)

\* the dict scan_gdrive_for_models returned as create_stubs reads it: each
\* rel_path split into its segments (line 84), each f_id a string
AsCatalog(result) ==
    [i \in 1..Len(result) |->
        Entry([j \in 1..Len(Split(result[i].path)) |-> Name(Split(result[i].path)[j])],
              Name(result[i].id))]

\* lines 41-47: install_gdown raises when gdown is missing and pip fails
\* (subprocess.run with check=True); gdown can be imported after it returned
install_gdown(env) == IF env.gdown \/ env.pip THEN "ok" ELSE "raise"

\* how far a run of main() got: the steps that returned, in order, how it
\* ended, the catalog the scan gave, and the models folder as it was when the
\* serving process was started
Ran(done, exit, catalog, atLaunch) ==
    [installed |-> "install" \in Range(done), scanned |-> "scan" \in Range(done),
     stubbed |-> "stubs" \in Range(done), launched |-> "serve" \in Range(done),
     watcher |-> "watch" \in Range(done), exit |-> exit, done |-> done,
     catalog |-> catalog, atLaunch |-> atLaunch]

\* an entry point that goes on without a folder id
UsageErrorNever(env) == FALSE

\* line 325: len(sys.argv) < 2
UsageError(env) == ~env.argv

\* main() starting the serving process before it creates the stubs
BootOrderServeFirst == <<"install", "scan", "serve", "stubs", "watch">>

\* the steps of main() in the order of the source: install_gdown (line 336),
\* scan_gdrive_for_models (340), create_stubs (345), subprocess.Popen of the
\* serving process (349-352), the watcher thread (356-357)
BootOrder == <<"install", "scan", "stubs", "serve", "watch">>

\* an empty models folder
NoModels ==
    [file |-> [p \in LocalPaths |-> Absent], marker |-> [p \in LocalPaths |-> NoMarker]]

\* the steps run one after the other in an environment env: whether gdown is
\* installed, pip works, what the store's listing does, and whether the models
\* folder can be written (if not, the first makedirs or open of create_stubs
\* raises). st is what the steps before have left; an exception that nothing
\* catches ends the process with a traceback
RECURSIVE RunSteps(_, _, _)
RunSteps(env, steps, st) ==
    IF steps = <<>> THEN st
    ELSE LET step == Head(steps)
             raise == [st EXCEPT !.exit = "traceback"]
             gdrive_files == scan_gdrive_for_models(TRUE, env.listing)
             stubs == create_stubs(st.folder.file, st.folder.marker, st.catalog)
             next(s) == RunSteps(env, Tail(steps), [s EXCEPT !.done = Append(@, step)])
         IN CASE step = "install" ->
                   IF install_gdown(env) = "raise" THEN raise ELSE next(st)
              [] step = "scan" ->
                   IF gdrive_files.raised THEN raise
                   ELSE next([st EXCEPT !.catalog = AsCatalog(gdrive_files.result)])
              [] step = "stubs" ->
                   IF stubs.created > 0 /\ ~env.writable THEN raise
                   ELSE next([st EXCEPT !.folder = [file |-> stubs.file,
                                                    marker |-> stubs.marker]])
              [] step = "serve" -> next([st EXCEPT !.atLaunch = st.folder])
              [] step = "watch" -> next(st)

\* lines 315-364 on an empty models folder: the import of requests (line 321),
\* the test of sys.argv (lines 325-327), then the steps; when all have
\* returned main() waits for the serving process
main(env) ==
    IF ~env.requests THEN Ran(<<>>, "traceback", <<>>, NoModels)
    ELSE IF UsageError(env) THEN Ran(<<>>, "usage", <<>>, NoModels)
    ELSE LET st == RunSteps(env, BootOrder,
                            [done |-> <<>>, exit |-> "wait", catalog |-> <<>>,
                             folder |-> NoModels, atLaunch |-> NoModels])
         IN Ran(st.done, st.exit, st.catalog, st.atLaunch)

MainArgs ==
    { [fn |-> "main", requests |-> r, argv |-> a, gdown |-> g, pip |-> p,
       listing |-> l, writable |-> w] :
        r \in BOOLEAN, a \in BOOLEAN, g \in BOOLEAN, p \in BOOLEAN, w \in BOOLEAN,
        l \in { Raises, ReturnsNone,
                Lists(<< [path |-> <<"x", "/", "x">>,
                          url |-> <<"uc?", "id=", "h1">>] >>),
                Lists(<< [path |-> <<"c", "h", "e", "c", "k", "p", "o", "i", "n",
                                     "t", "s", "\\", "a">>,
                          url |-> <<"uc?", "id=", "h1">>] >>),
                Lists(<< [path |-> <<"c", "l", "i", "p", "/", "b">>,
                          url |-> <<"uc?", "id=", "h0">>],
                         [path |-> <<"x", "/", "x">>,
                          url |-> <<"uc?", "id=", "h1">>],
                         [path |-> <<"C", "L", "I", "P", "/", "b">>,
                          url |-> <<"uc?", "id=", "h1">>] >>) } }

\* the entry point run in the environment arg
Main ==
    /\ arg.fn = "main"
    /\ res = NoRes
    /\ res' = [fn |-> "main", ran |-> main(arg)]
    /\ UNCHANGED <<arg, progVars>>

(* ---------------------- start_model_watcher, one tick ------------------ *)
\* the state a tick works on: the markers, the download_model calls made so
\* far, in order, and whether an exception is on its way to line 266
Work(m, calls, raised) == [marker |-> m, calls |-> calls, raised |-> raised]

\* lines 305-312 for the references of one prompt, in order: download_model is
\* called for each one that is a stub when it is looked at; a fetch that
\* succeeds (the paths of okSet) removes the marker (lines 157-158), one that
\* fails or raises leaves it (lines 161-163, 311-312)
RECURSIVE ResolveRefs(_, _, _)
ResolveRefs(refs, st, okSet) ==
    IF refs = <<>> THEN st
    ELSE LET p == Head(refs)
         IN ResolveRefs(Tail(refs),
                        IF is_stub(st.marker, p)
                        THEN Work(IF p \in okSet
                                  THEN [st.marker EXCEPT ![p] = NoMarker]
                                  ELSE st.marker,
                                  Append(st.calls, p), st.raised)
                        ELSE st,
                        okSet)

\* lines 272-312: the references before a node that raises are resolved, then
\* the exception leaves resolve_stubs_for_prompt
resolve_stubs_for_prompt(prompt, st, okSet) ==
    LET r == ResolvePrompt(prompt)
        done == ResolveRefs(r.refs, st, okSet)
    IN Work(done.marker, done.calls, r.raised)

\* the items of queue_pending: a job [number, id, prompt, ...] whose prompt is
\* a dict, an item shorter than 3, an item whose third element is no dict,
\* and an item len() raises on
Job(prompt) == [kind |-> "job", prompt |-> prompt]
ShortItem == [kind |-> "short", prompt |-> <<>>]
NoDictItem == [kind |-> "nodict", prompt |-> <<>>]
Unsized == [kind |-> "unsized", prompt |-> <<>>]

\* lines 257-262: the loop over the pending items; an exception ends it
RECURSIVE TickItems(_, _, _)
TickItems(items, st, okSet) ==
    IF items = <<>> THEN st
    ELSE LET item == Head(items)
         IN IF item.kind = "unsized" THEN Work(st.marker, st.calls, TRUE)
            ELSE IF item.kind # "job" THEN TickItems(Tail(items), st, okSet)
            ELSE LET r == resolve_stubs_for_prompt(item.prompt, st, okSet)
                 IN IF r.raised THEN r ELSE TickItems(Tail(items), r, okSet)

\* line 255 with "if pending:" alone
TriggersAlways(queue_pending, last_queue_remaining) == queue_pending # <<>>

\* line 255: if pending and len(pending) > last_queue_remaining
Triggers(queue_pending, last_queue_remaining) ==
    queue_pending # <<>> /\ Len(queue_pending) > last_queue_remaining

\* line 264 run although the try block raised
LastAfterAlways(raised, n, last_queue_remaining) == n

\* line 264, the last statement of the try block: not reached when a
\* statement before it raised
LastAfter(raised, n, last_queue_remaining) ==
    IF raised THEN last_queue_remaining ELSE n

\* a loop without the except clause of lines 266-267
AfterTickNoExcept(raised) == IF raised THEN "dead" ELSE "sleep"

\* lines 266-269: except Exception: pass, then time.sleep(2) and the next
\* iteration of while True, whether or not the try block raised
AfterTick(raised) == "sleep"

\* what GET /queue gives: requests.get raises; a status other than 200; a body
\* resp.json() raises on; JSON that is no dict (data.get raises); a dict
\* without queue_pending (pending = []); queue_pending null (len(None) raises
\* at line 264); a list of items
Answer(kind, items) == [kind |-> kind, pending |-> items]

\* lines 247-269, one iteration of the loop: the markers and
\* last_queue_remaining after it, the download_model calls it made, whether an
\* exception reached line 266, and where the loop is afterwards
Tick(resp, last_queue_remaining, m, okSet) ==
    LET st0 == Work(m, <<>>, FALSE)
        st == CASE resp.kind \in {"raise", "notjson", "notdict", "null"} ->
                     Work(m, <<>>, TRUE)
                [] resp.kind = "status" -> st0
                [] resp.kind = "nokey" -> st0
                [] resp.kind = "list" ->
                     IF Triggers(resp.pending, last_queue_remaining)
                     THEN TickItems(resp.pending, st0, okSet)
                     ELSE st0
    IN [marker |-> st.marker, calls |-> st.calls, raised |-> st.raised,
        last |-> IF resp.kind = "status" THEN last_queue_remaining
                 ELSE LastAfter(st.raised, Len(resp.pending), last_queue_remaining),
        next |-> AfterTick(st.raised)]

\* the prompts of the jobs drawn: two well-formed ones, one whose loader has
\* inputs that are no dict, one whose only node is no dict
GoodPrompts ==
    { << Node("CheckpointLoaderSimple", [k \in NodeKeys |-> Str("a")]) >>,
      << Node("DualCLIPLoader", [k \in NodeKeys |-> Str("b")]) >> }
BadPrompts ==
    { << Node("CheckpointLoaderSimple", NotADict) >>, << NotADict >> }
QueueItems ==
    { Job(pr) : pr \in GoodPrompts \cup BadPrompts }
    \cup { ShortItem, NoDictItem, Unsized }
Answers ==
    { Answer(k, <<>>) : k \in {"raise", "status", "notjson", "notdict", "nokey", "null"} }
    \cup { Answer("list", q) :
             q \in UNION { [1..n -> QueueItems] : n \in 0..MaxQueue } }
TickArgs ==
    { [fn |-> "tick", resp |-> r, last |-> l, marker |-> m, okSet |-> ok] :
        r \in Answers, l \in 0..MaxQueue, m \in MarkerStates,
        ok \in { {}, FnPaths } }

\* one iteration of the watcher's loop in the situation arg
WatcherTick ==
    /\ arg.fn = "tick"
    /\ res = NoRes
    /\ LET t == Tick(arg.resp, arg.last, arg.marker, arg.okSet)
       IN res' = [fn |-> "tick", marker |-> t.marker, calls |-> t.calls,
                  raised |-> t.raised, last |-> t.last, next |-> t.next]
    /\ UNCHANGED <<arg, progVars>>

(* ------------------ the Resolver on one path, on its own --------------- *)
\* what gdown.download (line 148) does in one call: it raises or returns, and
\* before it raised it had opened local_path or not and written so many chunks
Fetch(raised, opened, chunks) ==
    [raised |-> raised, opened |-> opened, chunks |-> chunks]
Returned(f, m, value, fetched) ==
    [file |-> f, marker |-> m, ret |-> value, fetched |-> fetched]

\* lines 143-163: the fetch of the object file_id to local_path; the marker is
\* removed and True returned when it returned, False returned when it raised,
\* with what it had written by then left at local_path
FetchTo(f, m, local_path, file_id, fetch) ==
    IF fetch.raised
    THEN Returned(IF fetch.opened
                  THEN [f EXCEPT ![local_path] =
                          [exists |-> TRUE,
                           data |-> [i \in 1..(IF fetch.chunks < ObjSize(file_id)
                                               THEN fetch.chunks
                                               ELSE ObjSize(file_id)) |-> file_id]]]
                  ELSE f,
                  m, "false", TRUE)
    ELSE Returned([f EXCEPT ![local_path] =
                     [exists |-> TRUE, data |-> Object(file_id)]],
                  [m EXCEPT ![local_path] = NoMarker], "true", TRUE)

\* download_model starting the fetch whatever the file and the marker are
DownloadAlways(f, m, local_path, file_id, fetch) ==
    FetchTo(f, m, local_path, file_id, fetch)

\* lines 128-163: a file of nonzero size without marker is left alone and True
\* returned (lines 136-141); otherwise the object file_id is fetched to
\* local_path, and the marker removed and True returned when the fetch
\* returned (lines 148-160), False returned when it raised (lines 161-163)
download_model(f, m, local_path, file_id, fetch) ==
    IF SizeOf(f, local_path) > 0 /\ ~is_stub(m, local_path)
    THEN Returned(f, m, "true", FALSE)
    ELSE FetchTo(f, m, local_path, file_id, fetch)

\* lines 305-312 for one local_path: download_model with the marker's content
\* when the path is a stub, nothing otherwise
ResolvePath(f, m, local_path, fetch) ==
    IF is_stub(m, local_path)
    THEN download_model(f, m, local_path, Strip(m[local_path]), fetch)
    ELSE Returned(f, m, "none", FALSE)

\* lines 219-228, the three branches of resolve_stubs_for_workflow for one
\* needed path: download_model, "already available", "not found on Drive"
Classify(f, m, model_path) ==
    IF is_stub(m, model_path) THEN "fetch"
    ELSE IF f[model_path].exists THEN "available"
    ELSE "not_found"

Fetches ==
    { Fetch(r, o, c) : r \in BOOLEAN, o \in BOOLEAN, c \in 0..FullSize }
PathArgs ==
    { [fn |-> "path", path |-> <<"checkpoints", "a">>, id |-> h,
       fetch |-> ft, again |-> ft2,
       file |-> [p \in LocalPaths |->
                   IF p = <<"checkpoints", "a">> THEN s1.f
                   ELSE IF p = <<"clip", "b">> THEN s2.f ELSE Absent],
       marker |-> [p \in LocalPaths |->
                   IF p = <<"checkpoints", "a">> THEN s1.m
                   ELSE IF p = <<"clip", "b">> THEN s2.m ELSE NoMarker]] :
        h \in Handles, ft \in Fetches,
        ft2 \in { Fetch(FALSE, TRUE, 0), Fetch(TRUE, FALSE, 0) },
        s1 \in SlotStates, s2 \in SlotStates }

\* the Resolver on arg.path in the models folder arg.file, arg.marker: the
\* branch resolve_stubs_for_workflow takes, download_model(arg.path, arg.id)
\* called directly, lines 305-312 of resolve_stubs_for_prompt once, and once
\* more on what the first time left
Resolver ==
    /\ arg.fn = "path"
    /\ res = NoRes
    /\ LET once == ResolvePath(arg.file, arg.marker, arg.path, arg.fetch)
       IN res' = [fn |-> "path",
                  class |-> Classify(arg.file, arg.marker, arg.path),
                  direct |-> download_model(arg.file, arg.marker, arg.path,
                                            arg.id, arg.fetch),
                  once |-> once,
                  twice |-> ResolvePath(once.file, once.marker, arg.path, arg.again)]
    /\ UNCHANGED <<arg, progVars>>

(* ------------- VastRunnerInterface._build_direct_urls ------------------ *)
\* src/runner_interface.py line 31
COMFYUI_PORT == 8188

\* str() of a natural number, as the f-string of line 782 formats COMFYUI_PORT
Digit(n) == <<"0", "1", "2", "3", "4", "5", "6", "7", "8", "9">>[n + 1]
RECURSIVE Dec(_)
Dec(n) == IF n < 10 THEN Digit(n) ELSE Dec(n \div 10) \o Digit(n % 10)

\* f"http://{public_ip}:{port}" (lines 778, 782)
Url(public_ip, port) == "http://" \o public_ip \o ":" \o port

\* a value of the ports dict: a list of port mappings, or something else
PortList(items) == [list |-> TRUE, items |-> items]
NotAList == [list |-> FALSE, items |-> <<>>]
\* instance_data["ports"]: missing or empty or no dict, or a dict
NoPorts == [dict |-> FALSE, map |-> <<>>]
PortsDict(map) == [dict |-> TRUE, map |-> map]

\* lines 771-778: the urls of the host ports mapped to 8188, key by key
RECURSIVE MappedUrls(_, _, _)
MappedUrls(public_ip, ports, keys) ==
    IF keys = <<>> THEN <<>>
    ELSE LET key == Head(keys)
             port_info == ports.map[key]
             hp == Get(port_info.items[1], "HostPort")
         IN (IF /\ key \in DOMAIN ports.map
                /\ port_info.list /\ port_info.items # <<>>
                /\ hp.v # "" /\ public_ip # ""
             THEN << Url(public_ip, hp.v) >> ELSE <<>>)
            \o MappedUrls(public_ip, ports, Tail(keys))

\* lines 785-786: the first occurrence of each url, in order
RECURSIVE Dedupe(_, _)
Dedupe(urls, seen) ==
    IF urls = <<>> THEN <<>>
    ELSE IF Head(urls) \in seen THEN Dedupe(Tail(urls), seen)
    ELSE << Head(urls) >> \o Dedupe(Tail(urls), seen \cup {Head(urls)})

\* lines 761-786. direct_port_start is read at line 768 and used nowhere
build_direct_urls(instance_data) ==
    LET public_ip == instance_data.public_ipaddr
        ports == instance_data.ports
        direct_port_start == instance_data.direct_port_start
        urls == (IF ports.dict /\ DOMAIN ports.map # {}
                 THEN MappedUrls(public_ip, ports, <<"8188/tcp", "8188">>)
                 ELSE <<>>)
                \o (IF public_ip # "" THEN << Url(public_ip, Dec(COMFYUI_PORT)) >>
                    ELSE <<>>)
    IN Dedupe(urls, {})

\* the instance data drawn: with and without public ip; ports missing, or a
\* dict with each of the two keys missing, no list, an empty list, or a list
\* whose first mapping has no HostPort, an empty one, a port, or 8188;
\* direct_port_start 0 (or missing), a port, 8188
HostPorts == { None, Str(""), Str("40001"), Str("8188") }
PortInfos ==
    { NotAList, PortList(<<>>) }
    \cup { PortList(<< [HostPort |-> hp] >>) : hp \in HostPorts }
PortMaps ==
    UNION { [K -> PortInfos] : K \in SUBSET {"8188/tcp", "8188"} }
UrlArgs ==
    { [fn |-> "urls", public_ipaddr |-> ip, ports |-> ps, direct_port_start |-> d] :
        ip \in {"", "10.0.0.1"},
        ps \in {NoPorts} \cup { PortsDict(m) : m \in PortMaps },
        d \in {0, 40000, COMFYUI_PORT} }

\* _build_direct_urls(arg)
BuildUrls ==
    /\ arg.fn = "urls"
    /\ res = NoRes
    /\ res' = [fn |-> "urls", urls |-> build_direct_urls(arg)]
    /\ UNCHANGED <<arg, progVars>>

(* -------------------- a handle through its marker ---------------------- *)
\* the characters of the handles drawn: what a url holds after "id=" (letters,
\* "-" and "_" of a Drive id, "&" of a further parameter); a url holds no
\* white space
IdChars == { "a", "-", "_", "&" }
IdStrings == UNION { [1..n -> IdChars] : n \in 0..MaxId }
MarkerArgs ==
    { [fn |-> "marker", gdown |-> TRUE,
       listing |-> Lists(<< [path |-> <<"c", "h", "e", "c", "k", "p", "o", "i", "n",
                                        "t", "s", "/", "a">>,
                             url |-> pre \o <<"id=">> \o h],
                            [path |-> <<"c", "l", "i", "p", "/", "b">>,
                             url |-> <<"uc?", "id=", "a">>] >>)] :
        h \in IdStrings, pre \in { <<"uc?">>, <<"uc?", "id=", "a", "&">> } }

\* the dict scan_gdrive_for_models returned as create_stubs reads it, each
\* f_id kept as its characters
AsCatalogOfChars(result) ==
    [i \in 1..Len(result) |->
        Entry([j \in 1..Len(Split(result[i].path)) |-> Name(Split(result[i].path)[j])],
              result[i].id)]

\* the scan of arg.listing, create_stubs of its result on an empty models
\* folder (line 119: f.write(file_id)), and for each path with a marker the
\* file_id lines 308-310 read from it and pass to download_model
MarkerTrip ==
    /\ arg.fn = "marker"
    /\ res = NoRes
    /\ LET gdrive_files == scan_gdrive_for_models(arg.gdown, arg.listing).result
           cat == AsCatalogOfChars(gdrive_files)
           stubs == create_stubs(NoModels.file, NoModels.marker, cat)
           marked == { LocalFile(cat[i].path) :
                         i \in { j \in 1..Len(cat) : Category(cat[j].path) # "" } }
       IN res' = [fn |-> "marker", catalog |-> cat,
                  written |-> [p \in marked |-> stubs.marker[p]],
                  passed |-> [p \in marked |-> strip(stubs.marker[p])]]
    /\ UNCHANGED <<arg, progVars>>

(* --------------- retry_with_backoff (vastai_runner.py) ----------------- *)
\* a loop that waits one more backoff_in_seconds before each retry
SleepLinear(backoff_in_seconds, x) == backoff_in_seconds * (x + 1)

\* line 40: sleep_time = (backoff_in_seconds * 2 ** x)
sleep_time(backoff_in_seconds, x) == backoff_in_seconds * 2 ^ x

\* lines 32-43, the loop of wrapper from the iteration with counter x on.
\* fails[k] says whether the k-th call of func raises; slept are the sleeps
\* made so far. The k-th call's value or exception is named by k
RECURSIVE wrapper(_, _, _, _, _)
wrapper(x, slept, retries, backoff_in_seconds, fails) ==
    IF ~fails[x + 1]
    THEN [kind |-> "return", of |-> x + 1, calls |-> x + 1, slept |-> slept]
    ELSE IF x = retries
    THEN [kind |-> "raise", of |-> x + 1, calls |-> x + 1, slept |-> slept]
    ELSE wrapper(x + 1, Append(slept, sleep_time(backoff_in_seconds, x)),
                 retries, backoff_in_seconds, fails)

\* lines 27-45: a call of the decorated function
retry_with_backoff(retries, backoff_in_seconds, fails) ==
    wrapper(0, <<>>, retries, backoff_in_seconds, fails)

\* retries from 0 to MaxRetries, the backoff of run_vastai (line 133), the
\* default and 1; each way the first MaxRetries + 1 calls can raise or return
RetryArgs ==
    { [fn |-> "retry", retries |-> r, backoff |-> b, fails |-> f] :
        r \in 0..MaxRetries, b \in {1, 2, 5}, f \in [1..(MaxRetries + 1) -> BOOLEAN] }

\* the decorated function called once
Retry ==
    /\ arg.fn = "retry"
    /\ res = NoRes
    /\ LET w == retry_with_backoff(arg.retries, arg.backoff, arg.fails)
       IN res' = [fn |-> "retry", kind |-> w.kind, of |-> w.of, calls |-> w.calls,
                  slept |-> w.slept]
    /\ UNCHANGED <<arg, progVars>>

\* ---------------------------------------------------------------------------
\* run_workflow (src/vastai_runner.py 589-661): rent, wait, queue, poll, and
\* the cleanup of the rented instance.  The outcomes of the remote calls are
\* drawn; the result is the list of destroy calls (by the line that made
\* them), the value returned and whether the instance became ready.

\* the four places that call destroy(instance_id)
DestroySites == {"497", "599", "611", "657"}

\* destroy (511-515): one `vastai destroy instance`; run_vastai raises when
\* the command still fails after its retries
destroy(site, e) ==
    [events |-> <<site>>, out |-> IF site \in e.fails THEN "exception" ELSE "ok"]

\* wait_for_ready (463-498): the instance once it is running with a url; an
\* exception of `vastai show instances` (470) or a KeyboardInterrupt leaves
\* the loop; at the timeout the instance is destroyed (497) and None returned
wait_for_ready(e) ==
    CASE e.wait = "ready" -> [events |-> <<>>, out |-> "instance"]
      [] e.wait = "raise" -> [events |-> <<>>, out |-> "exception"]
      [] e.wait = "interrupt" -> [events |-> <<>>, out |-> "interrupt"]
      [] e.wait = "timeout" ->
            LET d == destroy("497", e)
            IN  [events |-> d.events,
                 out |-> IF d.out = "exception" THEN "exception" ELSE "none"]

\* lines 618-649: queue the prompt (None: `raise Exception("Queue failed")`),
\* then poll the history until the prompt is in it and fetch the outputs
QueueAndPoll(e) ==
    CASE e.queue = "interrupt" -> "interrupt"
      [] e.queue = "none" -> "exception"
      [] e.queue = "ok" ->
            CASE e.poll = "done" -> "end"
              [] e.poll = "raise" -> "exception"
              [] e.poll = "interrupt" -> "interrupt"

\* the body of the try statement (595-649)
TryBody(e) ==
    LET w == wait_for_ready(e)
    IN  IF w.out \in {"exception", "interrupt"}
        THEN w
        ELSE IF w.out = "none"
        THEN LET d == destroy("599", e)
             IN  [events |-> w.events \o d.events,
                  out |-> IF d.out = "exception" THEN "exception" ELSE "False"]
        ELSE IF ~e.url
        THEN IF ~e.keep_alive
             THEN LET d == destroy("611", e)
                  IN  [events |-> d.events,
                       out |-> IF d.out = "exception" THEN "exception" ELSE "False"]
             ELSE [events |-> <<>>, out |-> "False"]
        ELSE [events |-> <<>>, out |-> QueueAndPoll(e)]

\* a finally clause that leaves the instance running
FinallyKeeps(e) == [events |-> <<>>, out |-> "ok"]

\* the finally clause (655-659)
Finally(e) ==
    IF ~e.keep_alive THEN destroy("657", e) ELSE [events |-> <<>>, out |-> "ok"]

\* lines 590-661; both except clauses (651-654) only print
run_workflow(e) ==
    IF ~e.rented
    THEN [events |-> <<>>, ret |-> "False", ready |-> FALSE]
    ELSE LET b == TryBody(e)
             f == Finally(e)
         IN  [events |-> b.events \o f.events,
              ret |-> IF f.out = "exception" THEN "raise"
                      ELSE IF b.out = "False" THEN "False" ELSE "True",
              ready |-> e.wait = "ready"]

RunWorkflowArgs ==
    { [fn |-> "run_workflow", rented |-> r, keep_alive |-> k, wait |-> w,
       url |-> u, queue |-> q, poll |-> p, fails |-> f] :
        r \in BOOLEAN, k \in BOOLEAN,
        w \in {"ready", "timeout", "raise", "interrupt"}, u \in BOOLEAN,
        q \in {"ok", "none", "interrupt"}, p \in {"done", "raise", "interrupt"},
        f \in SUBSET DestroySites }

RunWorkflow ==
    /\ arg.fn = "run_workflow"
    /\ res = NoRes
    /\ res' = [fn |-> "run_workflow"] @@ run_workflow(arg)
    /\ UNCHANGED <<arg, progVars>>

\* ---------------------------------------------------------------------------
\* sync_models (src/sync_local_to_drive.py 53-140): the local models tree and
\* its mirror on Drive are maps from a path (folder, relative path) to the
\* size of the file there, as get_file_list (37-50) reads them.

\* lines 12-34
MODEL_FOLDERS ==
    <<"checkpoints", "clip", "clip_vision", "configs", "controlnet",
      "diffusers", "diffusion_models", "embeddings", "gligen", "hypernetworks",
      "latent_upscale_models", "loras", "model_patches", "photomaker",
      "style_models", "text_encoders", "unet", "upscale_models", "vae",
      "vae_approx", "audio_encoders">>

\* the value of drive_files.get for a path without a file (line 98)
NoFile == -1
Sizes == 0..MaxSize

\* the files of the trees drawn: two in a model folder, one in a folder of the
\* models tree that is no model folder
RelPaths == <<"a", "b">>
TreePaths == {<<"checkpoints", "a">>, <<"checkpoints", "b">>, <<"ipadapter", "a">>}
Trees == [TreePaths -> Sizes \cup {NoFile}]

\* get_file_list (37-50): the relative paths of a folder that hold a file
get_file_list(tree, folder) ==
    { n \in Range(RelPaths) : <<folder, n>> \in TreePaths /\ tree[<<folder, n>>] # NoFile }

SizeIn(tree, folder, rel_path) ==
    IF <<folder, rel_path>> \in TreePaths THEN tree[<<folder, rel_path>>] ELSE NoFile

\* a sync that copies only what Drive does not have
CopyIfMissing(drive_size, local_size) == drive_size = NoFile

\* line 100, negated: the file is new or of a different size
needs_copy(drive_size, local_size) == drive_size # local_size

\* lines 97-119 for the files of one folder, in the order of names
RECURSIVE SyncFiles(_, _, _, _, _)
SyncFiles(st, local_tree, folder, names, copy_errors) ==
    IF names = <<>> THEN st
    ELSE LET rel_path == Head(names)
             p == <<folder, rel_path>>
             local_size == SizeIn(local_tree, folder, rel_path)
             drive_size == SizeIn(st.drive, folder, rel_path)
             next ==
                 IF rel_path \notin get_file_list(local_tree, folder) THEN st
                 ELSE IF ~needs_copy(drive_size, local_size)
                 THEN [st EXCEPT !.skipped = @ + 1]
                 ELSE IF p \in copy_errors
                 THEN [st EXCEPT !.tried = @ \cup {p}]
                 ELSE [st EXCEPT !.tried = @ \cup {p},
                                 !.drive[p] = local_size,
                                 !.copied = @ + 1,
                                 !.total_bytes = @ + local_size]
         IN  SyncFiles(next, local_tree, folder, Tail(names), copy_errors)

\* lines 79-119 over the folders
RECURSIVE SyncFolders(_, _, _, _)
SyncFolders(st, local_tree, folders, copy_errors) ==
    IF folders = <<>> THEN st
    ELSE LET folder == Head(folders)
             next == IF get_file_list(local_tree, folder) = {} THEN st
                     ELSE SyncFiles(st, local_tree, folder, RelPaths, copy_errors)
         IN  SyncFolders(next, local_tree, Tail(folders), copy_errors)

\* lines 71-140 with the default folders; the second loop (123-135) only logs
sync_models(local_tree, drive_tree, copy_errors) ==
    SyncFolders([drive |-> drive_tree, copied |-> 0, skipped |-> 0,
                 total_bytes |-> 0, tried |-> {}],
                local_tree, MODEL_FOLDERS, copy_errors)

SyncArgs ==
    { [fn |-> "sync", local |-> l, drive |-> d, errors |-> e] :
        l \in Trees, d \in Trees, e \in SUBSET TreePaths }

\* one sync, and a second one right after it
Sync ==
    /\ arg.fn = "sync"
    /\ res = NoRes
    /\ LET first == sync_models(arg.local, arg.drive, arg.errors)
       IN  res' = [fn |-> "sync", first |-> first,
                   second |-> sync_models(arg.local, first.drive, {})]
    /\ UNCHANGED <<arg, progVars>>

FnArgs ==
    ExtractArgs \cup ResolveArgs \cup StubArgs \cup ScanArgs \cup MainArgs
    \cup TickArgs \cup PathArgs \cup UrlArgs
    \cup MarkerArgs \cup RetryArgs \cup RunWorkflowArgs \cup SyncArgs

InitFn == InitWith(FALSE) /\ arg \in FnArgs /\ res = NoRes

NextFn ==
    \/ Extract
    \/ Resolve
    \/ Materialize
    \/ Scan
    \/ Main
    \/ WatcherTick
    \/ Resolver
    \/ BuildUrls
    \/ MarkerTrip
    \/ Retry
    \/ RunWorkflow
    \/ Sync

SpecFn == InitFn /\ [][NextFn]_vars

(* --------------- two Resolver calls at once, on disjoint paths --------- *)
\* Each call runs lines 301-312 over its own paths; local_path, stub_marker and
\* file_id are locals of the call (lines 304-309, 134-136). res holds the
\* models folder, and per call: the paths left, where it is, whether its fetch
\* has opened the file, the file_id it read; out is what each fetch did, who
\* the call that took the last step, overlap whether a download_model of one
\* call has started while one of the other was running
NoFetch == [raised |-> FALSE, opened |-> FALSE, chunks |-> 0]
PairSets ==
    { << << <<"checkpoints", "a">> >>, << <<"clip", "b">> >> >>,
      << << <<"checkpoints", "a">>, <<"junk", "a">> >>, << <<"clip", "b">> >> >>,
      << << <<"junk", "a">> >>, << <<"clip", "b">>, <<"checkpoints", "a">> >> >> }
PairArgs ==
    { [fn |-> "pair", sets |-> w,
       file |-> [p \in LocalPaths |->
                   IF p = <<"checkpoints", "a">> THEN s1.f
                   ELSE IF p = <<"clip", "b">> THEN s2.f ELSE s3.f],
       marker |-> [p \in LocalPaths |->
                   IF p = <<"checkpoints", "a">> THEN s1.m
                   ELSE IF p = <<"clip", "b">> THEN s2.m ELSE s3.m]] :
        w \in PairSets, s1 \in SlotStates, s2 \in SlotStates,
        s3 \in { [f |-> Absent, m |-> NoMarker], [f |-> Empty, m |-> "h0"] } }

InitPair ==
    /\ InitWith(FALSE)
    /\ arg \in PairArgs
    /\ res = [fn |-> "pair", file |-> arg.file, marker |-> arg.marker,
              work |-> arg.sets, pc |-> <<"check", "check">>,
              open |-> <<FALSE, FALSE>>, id |-> <<NoMarker, NoMarker>>,
              out |-> [p \in LocalPaths |-> NoFetch], who |-> 0,
              overlap |-> FALSE]

\* lines 301-309: call i looks at its next path; a stub has its marker read
\* and download_model started, any other path is passed over
PCheck(i) ==
    /\ res.pc[i] = "check"
    /\ IF res.work[i] = <<>>
       THEN res' = [res EXCEPT !.pc[i] = "done", !.who = i]
       ELSE LET p == Head(res.work[i])
            IN IF is_stub(res.marker, p)
               THEN res' = [res EXCEPT !.pc[i] = "fetch", !.open[i] = FALSE,
                                       !.id[i] = Strip(res.marker[p]), !.who = i,
                                       !.overlap = @ \/ res.pc[3 - i] = "fetch"]
               ELSE res' = [res EXCEPT !.work[i] = Tail(@), !.who = i]
    /\ UNCHANGED <<arg, progVars>>

\* line 148: the fetch of call i opens its local_path for writing
POpen(i) ==
    /\ res.pc[i] = "fetch"
    /\ ~res.open[i]
    /\ res' = [res EXCEPT !.file[Head(res.work[i])] = Empty, !.open[i] = TRUE,
                          !.who = i]
    /\ UNCHANGED <<arg, progVars>>

\* line 148: the fetch of call i writes the next chunk
PChunk(i) ==
    /\ res.pc[i] = "fetch"
    /\ res.open[i]
    /\ Len(res.file[Head(res.work[i])].data) < ObjSize(res.id[i])
    /\ res' = [res EXCEPT !.file[Head(res.work[i])].data = Append(@, res.id[i]),
                          !.who = i]
    /\ UNCHANGED <<arg, progVars>>

\* a download_model that removes every marker of the folder when it is done
PDoneSweeps(i) ==
    /\ res.pc[i] = "fetch"
    /\ res.open[i]
    /\ Len(res.file[Head(res.work[i])].data) = ObjSize(res.id[i])
    /\ res' = [res EXCEPT !.marker = [p \in LocalPaths |-> NoMarker],
                          !.out[Head(res.work[i])] = Fetch(FALSE, TRUE, 0),
                          !.work[i] = Tail(@), !.pc[i] = "check", !.who = i]
    /\ UNCHANGED <<arg, progVars>>

\* lines 150-160: the fetch of call i returned; its marker is removed
PDone(i) ==
    /\ res.pc[i] = "fetch"
    /\ res.open[i]
    /\ Len(res.file[Head(res.work[i])].data) = ObjSize(res.id[i])
    /\ res' = [res EXCEPT !.marker[Head(res.work[i])] = NoMarker,
                          !.out[Head(res.work[i])] = Fetch(FALSE, TRUE, 0),
                          !.work[i] = Tail(@), !.pc[i] = "check", !.who = i]
    /\ UNCHANGED <<arg, progVars>>

\* lines 161-163: the fetch of call i raised, before or after it wrote
PFail(i) ==
    /\ res.pc[i] = "fetch"
    /\ res' = [res EXCEPT !.out[Head(res.work[i])] =
                              Fetch(TRUE, res.open[i],
                                    IF res.open[i]
                                    THEN Len(res.file[Head(res.work[i])].data)
                                    ELSE 0),
                          !.work[i] = Tail(@), !.pc[i] = "check", !.who = i]
    /\ UNCHANGED <<arg, progVars>>

NextPair ==
    \E i \in {1, 2} :
        \/ PCheck(i)
        \/ POpen(i)
        \/ PChunk(i)
        \/ PDone(i)
        \/ PFail(i)

SpecPair == InitPair /\ [][NextPair]_vars

\* lines 301-312 over the paths of one call, run on its own from the models
\* folder st with the fetches doing what out says
RECURSIVE ResolveAll(_, _, _)
ResolveAll(paths, st, out) ==
    IF paths = <<>> THEN st
    ELSE LET r == ResolvePath(st.file, st.marker, Head(paths), out[Head(paths)])
         IN ResolveAll(Tail(paths), [file |-> r.file, marker |-> r.marker], out)

(* ======================= the launcher's interface ====================== *)
\* VastRunnerInterface (src/runner_interface.py): the launch pipeline with its
\* two pool threads, the metrics-polling thread and destroy_instance, as the
\* launcher's buttons run them (src/launcher.py 402-459).  The state is held
\* in res; status and steps are the last values handed to the set_status and
\* set_step callbacks.

\* lines 40-54
STEPS == <<"Sync Models", "Search GPU", "Create Instance", "Loading",
           "Connecting", "Ready">>
STEP_SYNC == 0
STEP_SEARCH == 1
STEP_CREATE == 2
STEP_LOADING == 3
STEP_CONNECTING == 4
STEP_READY == 5
StepIndexes == 0..(Len(STEPS) - 1)

\* InstanceInfo().id (line 148) and the id create_instance stores (line 496)
NoId == "None"
NewContract == "#1"

AllPending == [i \in StepIndexes |-> "pending"]

\* what the pieces of the pipeline can come to
SyncOutcomes == {"no paths", "no folder", "up to date", "copied", "error"}
SearchOutcomes == {"offer", "none", "raise"}
CreateOutcomes == {"id", "none", "raise"}
StoppedLabels == {"ERROR", "STOPPED", "OFFLINE"}
ActualStatuses == {"running", "exited", "offline", "error"}

\* __init__ (208-218) under the launcher's first status label (launcher.py 80)
IfaceInit ==
    [fn |-> "iface", status |-> "OFFLINE", steps |-> AllPending,
     id |-> NoId, polling |-> FALSE,
     pcL |-> "idle", ret |-> "none", pcSync |-> "off", syncOut |-> "none",
     pcSearch |-> "off", offer |-> FALSE, createOut |-> "not called",
     pcM |-> "off", data |-> "none",
     pcD |-> "idle", tracked |-> FALSE, cmdOut |-> "none",
     pre |-> [status |-> "OFFLINE", steps |-> AllPending, id |-> NoId,
              polling |-> FALSE],
     calls |-> <<>>]

InitIface == InitWith(FALSE) /\ arg = [fn |-> "iface"] /\ res = IfaceInit

Iface(next) == res' = next /\ UNCHANGED <<arg, progVars>>

\* launch_cloud 876-891: the steps go back to pending and sync_to_drive and
\* search_gpus are handed to the pool
LaunchCloud ==
    /\ res.pcL = "idle" /\ res.pcD = "idle"
    /\ Iface([res EXCEPT !.steps = AllPending, !.pcL = "parallel",
                         !.pcSync = "start", !.pcSearch = "start"])

\* sync_to_drive 287-288
SyncBegin ==
    /\ res.pcSync = "start"
    /\ Iface([res EXCEPT !.steps[STEP_SYNC] = "active", !.status = "SYNCING",
                         !.pcSync = "run"])

\* sync_to_drive 290-327: skipped (no paths 293-296, no folder 303-306),
\* copied or up to date (311-323), or an error of the copy (324-327); True is
\* returned in every case
SyncEnd ==
    /\ res.pcSync = "run"
    /\ \E out \in SyncOutcomes :
          Iface([res EXCEPT
                   !.steps[STEP_SYNC] = IF out = "error" THEN "error" ELSE "done",
                   !.pcSync = "done", !.syncOut = out,
                   !.calls = Append(@, "sync_end")])

\* search_gpus 333-334
SearchBegin ==
    /\ res.pcSearch = "start"
    /\ Iface([res EXCEPT !.steps[STEP_SEARCH] = "active",
                         !.status = "SEARCHING", !.pcSearch = "run"])

\* search_gpus 336-429: the best offer (406-420), None (357-360, 375-378,
\* 401-404, 422-429), or an exception of the conversions of the configured
\* price and disk size (337, 340), which stand before the try
SearchEnd ==
    /\ res.pcSearch = "run"
    /\ \E out \in SearchOutcomes :
          Iface([res EXCEPT
                   !.steps[STEP_SEARCH] =
                       CASE out = "offer" -> "done"
                         [] out = "none" -> "error"
                         [] out = "raise" -> @,
                   !.pcSearch = IF out = "raise" THEN "raised" ELSE "done",
                   !.offer = (out = "offer"),
                   !.calls = IF out = "offer" THEN Append(@, "offer") ELSE @])

\* launch_cloud 894-900: the search's exception comes out of result(); the
\* return leaves the with block, which waits for the sync thread
SearchRaised ==
    /\ res.pcL = "parallel" /\ res.pcSearch = "raised" /\ res.pcSync = "done"
    /\ Iface([res EXCEPT !.pcL = "returned", !.ret = "False"])

\* launch_cloud 895-897: both results are in
Joined ==
    /\ res.pcL = "parallel" /\ res.pcSearch = "done" /\ res.pcSync = "done"
    /\ Iface([res EXCEPT !.pcL = "joined"])

\* launch_cloud 902-904
NoOffer ==
    /\ res.pcL = "joined" /\ ~res.offer
    /\ Iface([res EXCEPT !.status = "ERROR", !.pcL = "returned",
                         !.ret = "False"])

\* launch_cloud 907-910 with create_instance 433-519: the new contract's id is
\* stored (496) and returned; None after a refused or failed request; the
\* conversion of the disk size (444) raises into launch_cloud's handler
\* (916-919)
CreateInstance ==
    /\ res.pcL = "joined" /\ res.offer
    /\ \E out \in CreateOutcomes :
          Iface([res EXCEPT
                   !.calls = IF out = "id" THEN @ \o <<"create", "created">>
                             ELSE Append(@, "create"),
                   !.createOut = out,
                   !.steps[STEP_CREATE] =
                       CASE out = "id" -> "done"
                         [] out = "none" -> "error"
                         [] out = "raise" -> "active",
                   !.id = IF out = "id" THEN NewContract ELSE @,
                   !.status = IF out = "id" THEN @ ELSE "ERROR",
                   !.pcL = IF out = "id" THEN "created" ELSE "returned",
                   !.ret = IF out = "id" THEN @ ELSE "False"])

\* poll_instance_until_ready 529-530
PollBegin ==
    /\ res.pcL = "created"
    /\ Iface([res EXCEPT !.steps[STEP_LOADING] = "active",
                         !.status = "LOADING", !.pcL = "polling",
                         !.calls = Append(@, "poll")])

\* poll_instance_until_ready 556-578: a round that finds the instance loading
\* or connecting
PollRound ==
    /\ res.pcL = "polling"
    /\ \E label \in {"LOADING", "CONNECTING"} :
          Iface([res EXCEPT
                   !.status = label \o ": detail",
                   !.steps[STEP_LOADING] =
                       IF label = "LOADING" THEN "active" ELSE "done",
                   !.steps[STEP_CONNECTING] =
                       IF label = "CONNECTING" THEN "active" ELSE @])

\* poll_instance_until_ready 580-619: running; the metrics polling is started
\* (_start_metrics_polling 810-845) and True returned
PollReady ==
    /\ res.pcL = "polling"
    /\ Iface([res EXCEPT
                !.steps[STEP_LOADING] = "done", !.steps[STEP_CONNECTING] = "done",
                !.steps[STEP_READY] = "done",
                !.status = "RUNNING: ComfyUI Ready",
                !.polling = TRUE, !.pcM = "top",
                !.pcL = "returned", !.ret = "True"])

\* poll_instance_until_ready 621-624 and 633-635: the instance stopped, or the
\* thirty minutes are over
PollFailed ==
    /\ res.pcL = "polling"
    /\ \/ \E label \in StoppedLabels :
             Iface([res EXCEPT !.status = label \o ": detail",
                               !.steps[STEP_LOADING] = "error",
                               !.pcL = "returned", !.ret = "False"])
       \/ Iface([res EXCEPT !.status = "ERROR: Timeout",
                            !.pcL = "returned", !.ret = "False"])

\* poll_loop 815: the test of the loop
MetricsTest ==
    /\ res.pcM = "top"
    /\ Iface([res EXCEPT
                !.pcM = IF res.polling /\ res.id # NoId THEN "fetch" ELSE "off"])

\* poll_loop 816-832: `vastai show instance <id>` is run with the id read at
\* line 822; a failed command or an exception leaves nothing to act on
MetricsFetch ==
    /\ res.pcM = "fetch"
    /\ \E d \in IF res.id = NoId THEN {"none"} ELSE ActualStatuses \cup {"none"} :
          Iface([res EXCEPT !.data = d, !.pcM = "fetched"])

\* poll_loop 834-842
MetricsAct ==
    /\ res.pcM = "fetched"
    /\ IF res.data \in {"exited", "offline", "error"}
       THEN Iface([res EXCEPT !.status = "ERROR: " \o res.data,
                              !.polling = FALSE, !.pcM = "off",
                              !.data = "none"])
       ELSE Iface([res EXCEPT !.pcM = "top", !.data = "none"])

Snapshot == [status |-> res.status, steps |-> res.steps, id |-> res.id,
             polling |-> res.polling]

\* destroy_instance 981-983, called while no launch is running
DestroyNothing ==
    /\ res.pcD = "idle" /\ res.pcL \in {"idle", "returned"}
    /\ res.id = NoId
    /\ Iface([res EXCEPT !.pcD = "returned", !.tracked = FALSE,
                         !.pre = Snapshot])

\* destroy_instance 985-990
DestroyBegin ==
    /\ res.pcD = "idle" /\ res.pcL \in {"idle", "returned"}
    /\ res.id # NoId
    /\ Iface([res EXCEPT !.polling = FALSE, !.pcD = "command",
                         !.tracked = TRUE, !.pre = Snapshot])

\* destroy_instance 994-1006: the remote command succeeds, fails, or the
\* subprocess raises; all three are only logged
DestroyCommand ==
    /\ res.pcD = "command"
    /\ \E out \in {"ok", "failed", "raised"} :
          Iface([res EXCEPT !.cmdOut = out, !.pcD = "reset"])

\* destroy_instance 1009-1012
DestroyReset ==
    /\ res.pcD = "reset"
    /\ Iface([res EXCEPT !.id = NoId, !.status = "OFFLINE",
                         !.steps = AllPending, !.pcD = "returned"])

NextIface ==
    \/ LaunchCloud
    \/ SyncBegin
    \/ SyncEnd
    \/ SearchBegin
    \/ SearchEnd
    \/ SearchRaised
    \/ Joined
    \/ NoOffer
    \/ CreateInstance
    \/ PollBegin
    \/ PollRound
    \/ PollReady
    \/ PollFailed
    \/ MetricsTest
    \/ MetricsFetch
    \/ MetricsAct
    \/ DestroyNothing
    \/ DestroyBegin
    \/ DestroyCommand
    \/ DestroyReset

SpecIface == InitIface /\ [][NextIface]_vars

(* ========================== SmartVastStatus ============================ *)
\* SmartVastStatus (src/runner_interface.py 56-142) as an object that is
\* updated again and again while the clock moves on.  Progress is a float in
\* the source; here it is counted in units of 1/Scale percent, which makes
\* every value of the three loading curves (lines 92, 94, 96) a whole number.
Scale == 42

\* the thresholds of lines 102 and 117, in seconds
StuckLoading == 600
StuckConnecting == 120

\* time.time() when the object is made
Epoch == 1000

\* lines 102-103, 117-118 and 125: set when the threshold is exceeded, cleared
\* by running, otherwise left as it is
is_stuck(stuck, status, step_elapsed) ==
    CASE status = "loading" /\ step_elapsed > StuckLoading -> TRUE
      [] status = "connecting" /\ step_elapsed > StuckConnecting -> TRUE
      [] status = "running" -> FALSE
      [] OTHER -> stuck

Min(a, b) == IF a <= b THEN a ELSE b

\* the progress of lines 91-98, 109, 114, 124, 130, 135 and 140
progress(status, step_elapsed) ==
    CASE status = "loading" ->
            Min(95 * Scale,
                IF step_elapsed < 30 THEN (step_elapsed * 50 * Scale) \div 30
                ELSE IF step_elapsed < 90
                THEN 50 * Scale + ((step_elapsed - 30) * 30 * Scale) \div 60
                ELSE 80 * Scale + ((step_elapsed - 90) * 15 * Scale) \div 210)
      [] status = "creating" -> 10 * Scale
      [] status = "connecting" -> Min(90 * Scale, step_elapsed * 5 * Scale)
      [] status = "running" -> 100 * Scale
      [] OTHER -> 0

\* the label of lines 87, 107, 112, 122, 128, 133 and 138
label(status) ==
    CASE status = "loading" -> "LOADING"
      [] status = "creating" -> "CREATING"
      [] status = "connecting" -> "CONNECTING"
      [] status = "running" -> "RUNNING"
      [] status = "offline" -> "OFFLINE"
      [] status = "exited" -> "STOPPED"
      [] status = "unknown" -> "UNKNOWN"

\* __init__ 61-68
SmartVastStatus ==
    [label |-> "OFFLINE", progress |-> 0, is_stuck |-> FALSE,
     step_start_time |-> 0, last_status |-> ""]

\* update 73-142 at the time now
update(self, actual_status, now) ==
    LET status == IF actual_status = "None" THEN "unknown" ELSE actual_status
        start == IF status # self.last_status THEN now ELSE self.step_start_time
        step_elapsed == now - start
    IN  [label |-> label(status),
         progress |-> progress(status, step_elapsed),
         is_stuck |-> is_stuck(self.is_stuck, status, step_elapsed),
         step_start_time |-> start,
         last_status |-> status]

\* the statuses the instance reports and the seconds between two updates
Reported == {"loading", "creating", "connecting", "running", "exited", "None"}
Gaps == {0, 30, 120, 121, 600}

InitStatus ==
    /\ InitWith(FALSE)
    /\ arg = [fn |-> "status"]
    /\ res = [fn |-> "status", now |-> Epoch, o |-> SmartVastStatus, n |-> 0,
              changed |-> FALSE]

\* one update of poll_instance_until_ready (558) or of the metrics polling
\* (831), some seconds after the one before
Update ==
    /\ res.n < MaxUpdates
    /\ \E actual_status \in Reported, gap \in Gaps :
          LET now == res.now + gap
              seen == IF actual_status = "None" THEN "unknown" ELSE actual_status
          IN  res' = [fn |-> "status", now |-> now,
                      o |-> update(res.o, actual_status, now),
                      n |-> res.n + 1,
                      changed |-> seen # res.o.last_status]
    /\ UNCHANGED <<arg, progVars>>

NextStatus == Update

SpecStatus == InitStatus /\ [][NextStatus]_vars

(* ============================== the claims ============================= *)
\* the three states of a local model slot (spec section 3)
AbsentSlot(p) == ~file[p].exists /\ marker[p] = NoMarker
Stub(p) == file[p].exists /\ Len(file[p].data) = 0 /\ marker[p] # NoMarker
Real(p) == file[p].exists /\ Len(file[p].data) > 0 /\ marker[p] = NoMarker

\* a step of Boot, and the two ways a download_model with a fetch ends
BootStep == lastCat' # 0
DownloadOk == ret' = "true"
DownloadFailed == ret' = "false"
\* a step in which the running job opens a model path
OpenStep == running # Idle /\ running' # Idle /\ running'.todo # running.todo

\* C1: when a download_model has returned, with True or with False, no local
\* path holds a file of nonzero length together with a marker (the slot
\* invariant after Resolver operations, failed fetches included).
C1_NeverSizedAndMarked ==
    ret # "none" =>
        \A p \in LocalPaths : ~(Len(file[p].data) > 0 /\ marker[p] # NoMarker)

\* C2: every open of a model path by the serving process observes complete
\* content, never a partially written file.
C2_OpensSeeWholeFiles ==
    [][OpenStep => Found(file, marker, Head(running.todo)) # "partial"]_vars

\* C3: every submitted job is observed by some poll tick that runs the
\* Resolver on it; stated on finished jobs, which no later tick can observe:
\* a job that ends was observed.
C3_DoneJobsWereObserved ==
    [][(running # Idle /\ running' = Idle /\ ~BootStep) => running.seen]_vars

\* C4: the serving process never opens, for the job it executes, a path that
\* is still a zero-length stub.
C4_NeverOpensAStub ==
    [][OpenStep => Found(file, marker, Head(running.todo)) # "stub"]_vars

\* C5 as stated: a successful download_model on a stub leaves a file of
\* nonzero length and no marker.
C5_ResolvedIsNonzero ==
    [][(DownloadOk /\ sizeBefore = 0) =>
         (Len(file'[Head(work)].data) > 0 /\ marker'[Head(work)] = NoMarker)]_vars

\* C5 amended: a successful download_model on a stub leaves the whole object
\* of the marker's handle at the path (of nonzero length exactly when the
\* object is not empty) and no marker.
C5_ResolvedIsWholeObject ==
    [][(DownloadOk /\ sizeBefore = 0) =>
         /\ file'[Head(work)] = [exists |-> TRUE, data |-> Object(marker[Head(work)])]
         /\ (Len(file'[Head(work)].data) > 0) = (ObjSize(marker[Head(work)]) > 0)
         /\ marker'[Head(work)] = NoMarker]_vars

\* C5 witness: a download_model has just returned True and a path holds
\* the whole non-empty object, without a marker
C5_Witness ==
    /\ ret = "true"
    /\ \E p \in LocalPaths : Real(p) /\ file[p].data = Object("h1")

\* C6: a download_model whose fetch fails on a stub leaves the file of zero
\* length and the marker as it was, and returns False.
C6_FailureLeavesStub ==
    [][(DownloadFailed /\ sizeBefore = 0) =>
         /\ file'[Head(work)] = Empty
         /\ marker'[Head(work)] = marker[Head(work)]
         /\ marker'[Head(work)] # NoMarker]_vars

\* C7: a path whose fetch failed keeps its marker, and once a job that refers
\* to it has been submitted and every job has left the queue and ended, the
\* fetch has been tried again.
C7_FailedIsRetried ==
    /\ \A p \in failed : marker[p] # NoMarker
    /\ (pending = <<>> /\ running = Idle) => owed = {}

\* the catalog entries create_stubs writes a stub for
Stubbed(cat) ==
    { i \in 1..Len(cat) :
        /\ Category(cat[i].path) # ""
        /\ ~Real(LocalFile(cat[i].path)) }

\* C8 as stated: create_stubs right after create_stubs on the same catalog
\* changes no file and no marker, and its created count is 0.
C8_SecondRunCreatesNone ==
    [][(BootStep /\ lastCat' = lastCat) =>
         (file' = file /\ marker' = marker /\ created' = 0)]_vars

\* C8 amended: create_stubs right after create_stubs on the same catalog
\* changes no file and no marker; it writes every stub again, so its created
\* count is the number of recognised entries whose slot is not Real.
C8_SecondRunChangesNothing ==
    [][(BootStep /\ lastCat' = lastCat) =>
         /\ file' = file
         /\ marker' = marker
         /\ created' = Cardinality(Stubbed(CatalogList[lastCat]))]_vars

\* C8 witness: the second of two runs in a row on a catalog with stubs
C8_Witness == again /\ created > 0 /\ \E p \in LocalPaths : Stub(p)

\* C9: create_stubs leaves every Real slot as it is: same content, no marker.
C9_RealIsNotRestubbed ==
    [][BootStep =>
         \A p \in LocalPaths :
            Real(p) => (file'[p] = file[p] /\ marker'[p] = NoMarker)]_vars

\* C9 witness: create_stubs has just returned and an entry of its catalog is Real
C9_Witness ==
    /\ lastCat # 0
    /\ \E i \in 1..Len(CatalogList[lastCat]) :
          /\ Category(CatalogList[lastCat][i].path) # ""
          /\ Real(LocalFile(CatalogList[lastCat][i].path))

\* C10: a path that is Real stays Real in every step: create_stubs, ticks,
\* downloads that succeed or fail.
C10_RealStaysReal ==
    [][\A p \in LocalPaths : Real(p) => Real(p)']_vars

\* C10 witness: a Real path when a later download_model has just failed
C10_Witness ==
    /\ ret = "false"
    /\ \E p \in LocalPaths : Real(p)

\* a step of a tick that finds the queue grown while stubs are referred to
TickOnStubs ==
    /\ pcW = "sleep"
    /\ ~BootStep
    /\ pending # <<>>
    /\ Len(pending) > last
    /\ SkipToStub(PendingRefs(pending), marker) # <<>>
    /\ (pcW' # pcW \/ last' # last)

\* C12: end to end. create_stubs leaves every accepted entry whose slot is not
\* Real (checkpoints/a -> h1) as a zero-length file with a marker holding its
\* handle; a tick that finds a pending job referring to stubs calls
\* download_model on the first of them with the handle of its marker; and
\* when that fetch succeeds the path holds the whole fetched object and no
\* marker exists.
C12_EndToEnd ==
    [][/\ BootStep =>
            \A i \in 1..Len(CatalogList[lastCat']) :
               LET e == CatalogList[lastCat'][i]
               IN (Category(e.path) # "" /\ ~Real(LocalFile(e.path)))
                  => /\ file'[LocalFile(e.path)] = Empty
                     /\ marker'[LocalFile(e.path)] = e.id
       /\ TickOnStubs =>
            /\ pcW' = "fetch"
            /\ work' = SkipToStub(PendingRefs(pending), marker)
            /\ fId' = marker[Head(work')]
       /\ DownloadOk =>
            /\ file'[Head(work)] = [exists |-> TRUE, data |-> Object(fId)]
            /\ marker'[Head(work)] = NoMarker]_vars

\* C12 witness: the job referring to checkpoints/a is still pending, the tick
\* that found it is over, its download returned True and checkpoints/a holds
\* the object of h1 without a marker
C12_Witness ==
    /\ ret = "true"
    /\ pcW = "sleep"
    /\ Len(pending) = 1
    /\ pending[1] = Item(1, TRUE)
    /\ file[<<"checkpoints", "a">>] = [exists |-> TRUE, data |-> Object("h1")]
    /\ marker[<<"checkpoints", "a">>] = NoMarker

(* ---------------- claims about the functions on their own -------------- *)
\* an application of Extract has returned
Extracted == arg.fn = "extract" /\ res # NoRes
\* the nodes of the prompt that are records with a mapping of inputs
WellFormed(prompt) ==
    \A i \in 1..Len(prompt) : IsDict(prompt[i]) /\ IsDict(prompt[i].inputs)
\* a present, non-empty string
NonEmptyStr(v) == v.t = "str" /\ v.v # ""
\* what a node with one key in the loader table is to contribute
SingleKeyWant(node) ==
    IF node.class_type \in MODEL_NODES_KINDS \ {"DualCLIPLoader"}
    THEN LET mk == MODEL_NODES(node.class_type)
         IN IF NonEmptyStr(Get(node.inputs, mk[2]))
            THEN { <<mk[1], Get(node.inputs, mk[2]).v>> } ELSE {}
    ELSE {}

\* C13: for a job spec without DualCLIPLoader nodes, both extractors yield
\* exactly the paths category_dir/value of the nodes whose kind is in the
\* loader table and whose inputs[key] is a non-empty string; a
\* CheckpointLoaderSimple node with ckpt_name a yields exactly checkpoints/a.
C13_SingleKeyRefs ==
    (/\ Extracted
     /\ WellFormed(arg.prompt)
     /\ \A i \in 1..Len(arg.prompt) : arg.prompt[i].class_type # "DualCLIPLoader")
    => LET want == UNION { SingleKeyWant(arg.prompt[i]) : i \in 1..Len(arg.prompt) }
       IN /\ ~res.raised
          /\ Range(res.refs) = want
          /\ res.wf = [refs |-> want, raised |-> FALSE]
          /\ (/\ Len(arg.prompt) = 1
              /\ arg.prompt[1].class_type = "CheckpointLoaderSimple"
              /\ arg.prompt[1].inputs["ckpt_name"] = Str("a"))
             => res.refs = << <<"checkpoints", "a">> >>

\* C13 witness: the one CheckpointLoaderSimple node with ckpt_name a was
\* extracted to checkpoints/a
C13_Witness ==
    /\ Extracted
    /\ Len(arg.prompt) = 1
    /\ IsDict(arg.prompt[1])
    /\ arg.prompt[1].class_type = "CheckpointLoaderSimple"
    /\ res.refs = << <<"checkpoints", "a">> >>

\* C14: for one DualCLIPLoader node, clip_name1 and clip_name2 both contribute
\* a path under clip: the paths looked at are those of the two inputs that
\* are non-empty strings, first clip_name1 then clip_name2, each once when
\* the names differ; resolve_stubs_for_workflow collects the same set when
\* neither input is a link.
C14_DualClipRefs ==
    (/\ Extracted
     /\ Len(arg.prompt) = 1
     /\ WellFormed(arg.prompt)
     /\ arg.prompt[1].class_type = "DualCLIPLoader")
    => LET n1 == arg.prompt[1].inputs["clip_name1"]
           n2 == arg.prompt[1].inputs["clip_name2"]
       IN /\ ~res.raised
          /\ res.refs = (IF NonEmptyStr(n1) THEN << <<"clip", n1.v>> >> ELSE <<>>)
                         \o (IF NonEmptyStr(n2) THEN << <<"clip", n2.v>> >> ELSE <<>>)
          /\ (n1.t # "link" /\ n2.t # "link")
             => res.wf = [refs |-> Range(res.refs), raised |-> FALSE]

\* C14 witness: a DualCLIPLoader with clip_name1 a and clip_name2 b was
\* extracted to clip/a and clip/b
C14_Witness ==
    /\ Extracted
    /\ res.refs = << <<"clip", "a">>, <<"clip", "b">> >>
    /\ res.wf.refs = { <<"clip", "a">>, <<"clip", "b">> }

\* a node that refers to no model: no dict, of a kind outside the loader
\* table, or with no non-empty string at the keys of its kind
NoModel(node) ==
    \/ ~IsDict(node)
    \/ node.class_type \notin MODEL_NODES_KINDS
    \/ /\ IsDict(node.inputs)
       /\ \A i \in 1..Len(KeysToCheck(node.class_type)) :
             ~NonEmptyStr(Get(node.inputs, KeysToCheck(node.class_type)[i][2]))

\* C15: resolve_stubs_for_prompt on a job whose nodes refer to no model
\* (kinds outside the loader table, whatever their inputs) raises nothing,
\* looks at no path and calls no download_model.
C15_NoModelNoFetch ==
    (Extracted /\ \A i \in 1..Len(arg.prompt) : NoModel(arg.prompt[i]))
    => (~res.raised /\ res.refs = <<>> /\ res.work = <<>>)

\* C15 witness: a prompt of two nodes outside the loader table, one with
\* inputs that are no mapping and one with model names, with stubs around
C15_Witness ==
    /\ Extracted
    /\ Len(arg.prompt) = 2
    /\ arg.prompt[1] = Node("KSampler", NotADict)
    /\ arg.prompt[2] = Node("", [k \in NodeKeys |-> Str("a")])
    /\ arg.marker[<<"checkpoints", "a">>] # NoMarker
    /\ res.work = <<>>

\* C16: text_encoders/x and clip/x resolve to the category clip, and
\* diffusion_models/x and unet/x to unet, hence to the same local path, in
\* whatever case the first segment is written.
C16_AliasesAgree ==
    (arg.fn = "resolve" /\ res # NoRes /\ Len(arg.parts) >= 2)
    => /\ arg.parts[1] \in { "text_encoders", "Text_Encoders", "TEXT_ENCODERS",
                             "clip", "CLIP" }
          => (res.category = "clip" /\ res.local = <<"clip">> \o Tail(arg.parts))
       /\ arg.parts[1] \in { "diffusion_models", "Diffusion_Models", "unet", "UNet" }
          => (res.category = "unet" /\ res.local = <<"unet">> \o Tail(arg.parts))

\* C16 witness: Text_Encoders/sub/a was resolved to clip/sub/a
C16_Witness ==
    /\ arg.fn = "resolve"
    /\ arg.parts = <<"Text_Encoders", "sub", "a">>
    /\ res # NoRes
    /\ res.local = <<"clip", "sub", "a">>

\* an application of create_stubs on its own has returned
Materialized == arg.fn = "create_stubs" /\ res # NoRes
\* the slot at p was Real in the models folder create_stubs was applied to
WasReal(p) ==
    arg.file[p].exists /\ Len(arg.file[p].data) > 0 /\ arg.marker[p] = NoMarker
\* a catalog path the Materializer is to reject, and the local path of one it
\* is to accept
Rejected(parts) ==
    Len(parts) < 2 \/ folder_aliases(Lower(parts[1])) \notin MODEL_SUBDIRS
Target(parts) == <<folder_aliases(Lower(parts[1]))>> \o Tail(parts)

\* C11: after create_stubs(C), for every entry of C whose category resolves
\* and whose slot was not Real, the local path holds a zero-length file and its
\* marker holds that entry's content handle.
C11_EveryEntryStubbed ==
    Materialized =>
        \A i \in 1..Len(arg.cat) :
            (~Rejected(arg.cat[i].path) /\ ~WasReal(Target(arg.cat[i].path)))
            => /\ res.file[Target(arg.cat[i].path)] = Empty
               /\ res.marker[Target(arg.cat[i].path)] = arg.cat[i].id

\* C17: create_stubs changes no file and no marker other than those of the
\* entries it accepts; a catalog of rejected entries (no separator, or a
\* first segment that is no category) changes nothing and creates nothing.
C17_RejectedHaveNoEffect ==
    Materialized =>
        /\ \A p \in LocalPaths :
              (\A i \in 1..Len(arg.cat) :
                  Rejected(arg.cat[i].path) \/ Target(arg.cat[i].path) # p)
              => (res.file[p] = arg.file[p] /\ res.marker[p] = arg.marker[p])
        /\ (\A i \in 1..Len(arg.cat) : Rejected(arg.cat[i].path))
           => res.created = 0

\* C17 witness: create_stubs returned on a catalog of a file in the root and
\* a file under a folder that is no category
C17_Witness ==
    /\ Materialized
    /\ Len(arg.cat) = 2
    /\ arg.cat[1].path = <<"root.bin">>
    /\ arg.cat[2].path = <<"junk", "a">>
    /\ ~res.file[<<"junk", "a">>].exists

\* an application of scan_gdrive_for_models has returned or raised
Scanned == arg.fn = "scan" /\ res # NoRes

\* C18: with gdown at hand, when the listing of the store fails (it raises,
\* or gives nothing that can be iterated) scan_gdrive_for_models raises
\* nothing and returns the empty mapping, and no file or marker has changed.
C18_ScanFailsOpen ==
    (Scanned /\ arg.gdown /\ arg.listing.kind # "files")
    => /\ ~res.raised
       /\ res.result = <<>>
       /\ file = [p \in LocalPaths |-> Absent]
       /\ marker = [p \in LocalPaths |-> NoMarker]

\* C18 witness: the scan has returned from a listing that raised
C18_Witness == Scanned /\ arg.gdown /\ arg.listing = Raises /\ res.result = <<>>

\* the store's path with backslashes replaced by forward slashes and one
\* leading "./" removed
Normalized(path) ==
    LET q == [i \in 1..Len(path) |-> IF path[i] = "\\" THEN "/" ELSE path[i]]
    IN IF Len(q) >= 2 /\ q[1] = "." /\ q[2] = "/" THEN SubSeq(q, 3, Len(q)) ELSE q

\* C20: the relative paths the scan returns are the store's paths with
\* backslashes replaced by forward slashes and a leading "./" removed, and
\* nothing else changed.
C20_PathsNormalized ==
    (Scanned /\ ~res.raised /\ arg.listing.kind = "files")
    => { res.result[i].path : i \in 1..Len(res.result) }
       = { Normalized(arg.listing.files[i].path) :
             i \in { j \in 1..Len(arg.listing.files) :
                       /\ "noattrs" \notin DOMAIN arg.listing.files[j]
                       /\ HasId(arg.listing.files[j].url) } }

\* C19: whenever main() is given a folder id (and its own import of requests
\* works) it reaches the launch of the serving process, whatever fails in the
\* dependency install, the catalog scan or the stub materialization before it.
C19_BootReachesLaunch ==
    (arg.fn = "main" /\ res # NoRes /\ arg.argv /\ arg.requests)
    => res.ran.launched

(* ------------------- claims about one tick of the watcher -------------- *)
Ticked == arg.fn = "tick" /\ res # NoRes
\* the pending list the tick got and its length n
Queried == Ticked /\ arg.resp.kind = "list"
WellFormedJob(item) == item.kind = "job" /\ item.prompt \in GoodPrompts
\* the stubs a pending item refers to when the tick starts
StubRefs(item) ==
    { p \in Range(PromptRefs(item.prompt)) : is_stub(arg.marker, p) }

\* C21: whatever happens in one iteration of the watcher's loop (requests.get
\* raises, the answer is not 200, no JSON or not of the expected shape, the
\* resolution of a job raises), the loop is afterwards at its sleep, from
\* where the next iteration starts; it has no other state to end in.
C21_FailingTickIsSwallowed ==
    Ticked => res.next = "sleep"

\* C21 witness: a tick in which the resolution of a job raised after a
\* download_model call was made, and the loop is at its sleep
C21_Witness ==
    /\ Queried
    /\ res.raised
    /\ res.calls # <<>>
    /\ \E i \in 1..Len(arg.resp.pending) : arg.resp.pending[i] \in
            { Job(pr) : pr \in BadPrompts }
    /\ res.next = "sleep"

\* C27: on a tick whose pending list is longer than last_queue_remaining and
\* holds well-formed jobs only, download_model is called for the stubs of
\* every pending job and for nothing else; on a tick whose pending list is not
\* longer, no download_model is called and no marker changes.
C27_TriggerRule ==
    Queried =>
        LET q == arg.resp.pending
        IN /\ (Len(q) > arg.last /\ \A i \in 1..Len(q) : WellFormedJob(q[i])) =>
                 Range(res.calls) = UNION { StubRefs(q[i]) : i \in 1..Len(q) }
           /\ Len(q) <= arg.last =>
                 (res.calls = <<>> /\ res.marker = arg.marker)

\* C27 witness: a tick with two pending jobs, one more than at the tick
\* before, called download_model for the stub of the older one too
C27_Witness ==
    /\ Queried
    /\ Len(arg.resp.pending) = 2
    /\ arg.last = 1
    /\ \A i \in 1..2 : WellFormedJob(arg.resp.pending[i])
    /\ arg.resp.pending[1] # arg.resp.pending[2]
    /\ StubRefs(arg.resp.pending[1]) # {}
    /\ StubRefs(arg.resp.pending[1]) \subseteq Range(res.calls)
    /\ StubRefs(arg.resp.pending[2]) \subseteq Range(res.calls)

C29_MalformedJobIsSkipped ==
    (Queried /\ Triggers(arg.resp.pending, arg.last)
       /\ \A i \in 1..Len(arg.resp.pending) : arg.resp.pending[i] # Unsized) =>
        \A i \in 1..Len(arg.resp.pending) :
            WellFormedJob(arg.resp.pending[i]) =>
                StubRefs(arg.resp.pending[i]) \subseteq Range(res.calls)

(* -------------------- claims about the Resolver on one path ------------ *)
OnPath == arg.fn = "path" /\ res # NoRes
\* the slot of arg.path before the Resolver ran
HadMarker == arg.marker[arg.path] # NoMarker
WasRealPath ==
    /\ arg.file[arg.path].exists
    /\ Len(arg.file[arg.path].data) > 0
    /\ arg.marker[arg.path] = NoMarker

\* C22: a needed path with a marker is fetched; one without a marker is taken
\* as already real when the file exists with nonzero size, and as missing
\* otherwise, a zero-length file without marker included.
C22_ClassifiedBySize ==
    OnPath =>
        res.class = (IF HadMarker THEN "fetch"
                     ELSE IF SizeOf(arg.file, arg.path) > 0 THEN "available"
                     ELSE "not_found")

\* C23: on a path that is a real file (nonzero length, no marker) neither the
\* Resolver nor download_model called directly fetches, and both leave every
\* file and every marker as they were; and when resolving a path has left it
\* a real file, resolving it once more fetches nothing and changes nothing.
C23_ReResolutionIsNoOp ==
    OnPath =>
        /\ WasRealPath =>
              /\ ~res.once.fetched /\ ~res.direct.fetched
              /\ res.once.file = arg.file /\ res.once.marker = arg.marker
              /\ res.direct.file = arg.file /\ res.direct.marker = arg.marker
              /\ res.direct.ret = "true"
        /\ (SizeOf(res.once.file, arg.path) > 0
              /\ ~is_stub(res.once.marker, arg.path)) =>
              /\ ~res.twice.fetched
              /\ res.twice.file = res.once.file
              /\ res.twice.marker = res.once.marker

\* C23 witness: a stub was resolved to a real file and resolved once more,
\* with a fetch that would have raised, and after a direct call as well
C23_Witness ==
    /\ OnPath
    /\ arg.file[arg.path] = Empty /\ HadMarker
    /\ res.once.fetched /\ res.once.ret = "true"
    /\ res.once.file[arg.path].data = Object("h1")
    /\ arg.again.raised
    /\ ~res.twice.fetched
    /\ res.twice.file = res.once.file

(* ---------------------- claims about two calls at once ----------------- *)
Paired == res.fn = "pair"
BothDone == Paired /\ res.pc = <<"done", "done">>
\* C24: when two Resolver calls on disjoint path sets run at once, no step of
\* one call changes the file or the marker of a path of the other's set, and
\* when both have ended every file and marker is what running the two calls
\* one after the other, in either order, with the same fetch outcomes leaves.
C24_DisjointCallsAreSafe ==
    [][Paired =>
         /\ \A i \in {1, 2} : \A p \in Range(arg.sets[3 - i]) :
               res'.who = i =>
                   (res'.file[p] = res.file[p] /\ res'.marker[p] = res.marker[p])
         /\ (res'.pc = <<"done", "done">>) =>
               /\ [file |-> res'.file, marker |-> res'.marker]
                     = ResolveAll(arg.sets[2],
                                  ResolveAll(arg.sets[1],
                                             [file |-> arg.file, marker |-> arg.marker],
                                             res'.out),
                                  res'.out)
               /\ [file |-> res'.file, marker |-> res'.marker]
                     = ResolveAll(arg.sets[1],
                                  ResolveAll(arg.sets[2],
                                             [file |-> arg.file, marker |-> arg.marker],
                                             res'.out),
                                  res'.out)]_vars

\* C24 witness: both calls have ended, their fetches ran at the same time:
\* one resolved its stub, the other's raised after it had opened its file
C24_Witness ==
    /\ BothDone
    /\ res.overlap
    /\ arg.marker[<<"checkpoints", "a">>] = "h1"
    /\ arg.marker[<<"clip", "b">>] = "h1"
    /\ res.out[<<"checkpoints", "a">>] = Fetch(FALSE, TRUE, 0)
    /\ res.out[<<"clip", "b">>].raised
    /\ res.out[<<"clip", "b">>].opened
    /\ res.file[<<"checkpoints", "a">>].data = Object("h1")
    /\ res.marker[<<"clip", "b">>] = "h1"

(* ------------------------- claims about main() ------------------------- *)
Mained == arg.fn = "main" /\ res # NoRes
\* the place of a step among those that returned, 0 when it did not
RECURSIVE Place(_, _)
Place(step, done) ==
    IF done = <<>> \/ step \notin Range(done) THEN 0
    ELSE IF Head(done) = step THEN 1 ELSE 1 + Place(step, Tail(done))

\* C25: main() without a folder id runs none of its steps: no dependency
\* install, no scan, no stub, no serving process, no watcher; it ends with the
\* usage error (when its import of requests, which comes first, works), never
\* by waiting for a serving process.
C25_NoArgumentRunsNothing ==
    (Mained /\ ~arg.argv) =>
        /\ res.ran.done = <<>>
        /\ ~res.ran.installed /\ ~res.ran.scanned /\ ~res.ran.stubbed
        /\ ~res.ran.launched /\ ~res.ran.watcher
        /\ res.ran.atLaunch = NoModels
        /\ res.ran.exit # "wait"
        /\ arg.requests => res.ran.exit = "usage"

\* C25 witness: main() without a folder id, in an environment where every
\* step would have worked and the catalog has an entry to stub, ended with the
\* usage error
C25_Witness ==
    /\ Mained
    /\ ~arg.argv /\ arg.requests /\ arg.gdown /\ arg.writable
    /\ arg.listing.kind = "files"
    /\ res.ran.exit = "usage"
    /\ res.ran.done = <<>>

\* C30: when main() has started the serving process, create_stubs had
\* returned before, and every catalog entry with a recognised category had a
\* file at its local path at that moment; when it has started the watcher, the
\* serving process had been started before.
C30_BootOrdering ==
    Mained =>
        /\ res.ran.launched =>
              /\ 0 < Place("stubs", res.ran.done)
              /\ Place("stubs", res.ran.done) < Place("serve", res.ran.done)
              /\ \A i \in 1..Len(res.ran.catalog) :
                    Category(res.ran.catalog[i].path) # "" =>
                        res.ran.atLaunch.file[LocalFile(res.ran.catalog[i].path)].exists
        /\ res.ran.watcher =>
              /\ 0 < Place("serve", res.ran.done)
              /\ Place("serve", res.ran.done) < Place("watch", res.ran.done)

\* C30 witness: main() started the serving process and the watcher on a
\* catalog with a recognised entry, whose stub was there at the launch
C30_Witness ==
    /\ Mained
    /\ res.ran.launched /\ res.ran.watcher
    /\ \E i \in 1..Len(res.ran.catalog) :
          /\ Category(res.ran.catalog[i].path) # ""
          /\ res.ran.atLaunch.file[LocalFile(res.ran.catalog[i].path)] = Empty
          /\ res.ran.atLaunch.marker[LocalFile(res.ran.catalog[i].path)] # NoMarker

(* ------------------- claims about _build_direct_urls ------------------- *)
Built == arg.fn = "urls" /\ res # NoRes
\* the host port mapped to 8188 under a key of the ports dict, "" when none
HostPortOf(key) ==
    IF /\ arg.ports.dict /\ key \in DOMAIN arg.ports.map
       /\ arg.ports.map[key].list /\ arg.ports.map[key].items # <<>>
    THEN Get(arg.ports.map[key].items[1], "HostPort").v ELSE ""
\* the place of a url in the list returned, 0 when it is not there
UrlPlace(u) == Place(u, res.urls)

\* C26: the list _build_direct_urls returns has no url twice; with a public
\* ip it holds the url of each host port mapped to 8188, the url of
\* direct_port_start when that is above 0, and the url of port 8188, in this
\* order (a url that stands for two of them is at the place of the first);
\* with a public ip and no port data it is the url of port 8188 alone;
\* without a public ip it is empty.
C26_DirectUrls ==
    Built =>
        LET ip == arg.public_ipaddr
            mapped == { Url(ip, HostPortOf(k)) :
                          k \in { k \in {"8188/tcp", "8188"} : HostPortOf(k) # "" } }
            direct == Url(ip, Dec(arg.direct_port_start))
            default == Url(ip, "8188")
        IN /\ \A i, j \in 1..Len(res.urls) : res.urls[i] = res.urls[j] => i = j
           /\ ip = "" => res.urls = <<>>
           /\ (ip # "" /\ ~arg.ports.dict /\ arg.direct_port_start = 0) =>
                 res.urls = << default >>
           /\ ip # "" =>
                 /\ \A u \in mapped : UrlPlace(u) > 0
                 /\ arg.direct_port_start > 0 => UrlPlace(direct) > 0
                 /\ UrlPlace(default) > 0
                 /\ default \notin mapped =>
                       \A u \in mapped : UrlPlace(u) < UrlPlace(default)
                 /\ (arg.direct_port_start > 0 /\ direct \notin mapped) =>
                       /\ \A u \in mapped : UrlPlace(u) < UrlPlace(direct)
                       /\ default \notin mapped \cup {direct} =>
                             UrlPlace(direct) < UrlPlace(default)

(* ----------------- claims about a handle and its marker ---------------- *)
Tripped == arg.fn = "marker" /\ res # NoRes

\* C31: the file_id the Resolver reads from the marker of a path and passes to
\* download_model is the f_id scan_gdrive_for_models returned for the catalog
\* entry of that path, which is what create_stubs wrote into the marker.
C31_MarkerRoundTrip ==
    Tripped =>
        \A i \in 1..Len(res.catalog) :
            Category(res.catalog[i].path) # "" =>
                /\ res.written[LocalFile(res.catalog[i].path)] = res.catalog[i].id
                /\ res.passed[LocalFile(res.catalog[i].path)] = res.catalog[i].id

\* C31 witness: a handle of MaxId characters that begins with "-" and ends
\* with "_", taken from a url with two "id=", came back from its marker
C31_Witness ==
    /\ Tripped
    /\ Len(arg.listing.files[1].url) = 5 + MaxId
    /\ \E p \in DOMAIN res.passed :
          /\ Len(res.passed[p]) = MaxId
          /\ Head(res.passed[p]) = "-"
          /\ res.passed[p][MaxId] = "_"

(* --------------------- claims about the extractors --------------------- *)
\* C32: on every job spec resolve_stubs_for_prompt, resolve_stubs_for_workflow
\* and analyze_workflow either all raise or none does, and when none does they
\* find the same set of (category, model name) references.
C32_ExtractorsAgree ==
    Extracted =>
        /\ res.raised = res.wf.raised
        /\ res.wf.raised = res.an.raised
        /\ ~res.raised => (Range(res.refs) = res.wf.refs /\ res.wf.refs = res.an.refs)

(* -------------------- claims about retry_with_backoff ------------------ *)
Retried == arg.fn = "retry" /\ res # NoRes
\* the calls of func, among the first retries + 1, that do not raise
Succeeding == { k \in 1..(arg.retries + 1) : ~arg.fails[k] }

\* C33: a function decorated with retry_with_backoff(r, b) is called at most
\* r + 1 times; the value of the first call that does not raise is returned
\* and that call is the last; when all r + 1 calls raise, the exception of the
\* last one leaves the wrapper; the sleep before the k-th retry is b * 2^(k-1).
C33_RetryWithBackoff ==
    Retried =>
        /\ res.calls <= arg.retries + 1
        /\ Succeeding # {} =>
              /\ res.kind = "return"
              /\ res.of = res.calls
              /\ \A k \in Succeeding : res.of <= k
              /\ res.of \in Succeeding
        /\ Succeeding = {} =>
              /\ res.kind = "raise"
              /\ res.calls = arg.retries + 1
              /\ res.of = arg.retries + 1
        /\ Len(res.slept) = res.calls - 1
        /\ \A k \in 1..Len(res.slept) : res.slept[k] = arg.backoff * 2 ^ (k - 1)

\* C33 witness: run_vastai's decorator (3 retries, backoff 2): the first three
\* calls raised, the fourth returned, after sleeps of 2, 4 and 8 seconds
C33_Witness ==
    /\ Retried
    /\ arg.retries = 3 /\ arg.backoff = 2
    /\ res.kind = "return" /\ res.of = 4 /\ res.calls = 4
    /\ res.slept = <<2, 4, 8>>

WorkflowRan == arg.fn = "run_workflow" /\ res # NoRes /\ arg.rented

\* C34: once rent_gpu returned an instance id, run_workflow with keep_alive
\* false invokes destroy for the instance on every path (not ready, no url,
\* queueing failed, exception, KeyboardInterrupt, completion) before it is
\* left; with keep_alive true no destroy is invoked once the instance became
\* ready.
C34_NoLeakedInstance ==
    WorkflowRan =>
        /\ ~arg.keep_alive => Len(res.events) >= 1
        /\ (arg.keep_alive /\ res.ready) => res.events = <<>>

\* C34 witness: keep_alive false, the instance became ready, the prompt was
\* queued, a KeyboardInterrupt ended the polling, and the finally clause made
\* the only destroy call
C34_Witness ==
    /\ WorkflowRan
    /\ ~arg.keep_alive /\ res.ready /\ arg.url
    /\ arg.queue = "ok" /\ arg.poll = "interrupt"
    /\ res.events = <<"657">>

\* the place of the first occurrence of an event among the pipeline's calls
FirstCall(ev) ==
    IF \E k \in 1..Len(res.calls) : res.calls[k] = ev
    THEN CHOOSE k \in 1..Len(res.calls) :
            res.calls[k] = ev /\ \A j \in 1..(k - 1) : res.calls[j] # ev
    ELSE 0
Called(ev) == FirstCall(ev) > 0
LaunchReturned == res.fn = "iface" /\ res.pcL = "returned"

\* C35: in launch_cloud, create_instance is invoked only after search_gpus
\* returned an offer and sync_to_drive finished, and poll_instance_until_ready
\* only after create_instance returned an id; however the sync ended, an offer
\* is followed by the creation; and a launch that got no offer, or whose
\* creation failed, has ended with status ERROR and without a later step.
C35_PipelineOrdering ==
    res.fn = "iface" =>
        /\ Called("create") =>
              /\ Called("offer") /\ FirstCall("offer") < FirstCall("create")
              /\ Called("sync_end") /\ FirstCall("sync_end") < FirstCall("create")
        /\ Called("poll") =>
              Called("created") /\ FirstCall("created") < FirstCall("poll")
        /\ (LaunchReturned /\ res.offer) => Called("create")
        /\ (LaunchReturned /\ ~res.offer) =>
              res.status = "ERROR" /\ ~Called("create") /\ ~Called("poll")
        /\ (LaunchReturned /\ res.createOut \in {"none", "raise"}) =>
              res.status = "ERROR" /\ ~Called("poll")

DestroyReturned == res.fn = "iface" /\ res.pcD = "returned"

\* C36: once destroy_instance has returned for a tracked instance, whatever
\* the remote destroy command did, no instance id is tracked, the polling flag
\* is false, the status is OFFLINE and every step is pending; called with no
\* instance tracked it changed nothing.
C36_DestroyResets ==
    DestroyReturned =>
        /\ res.tracked =>
              /\ res.id = NoId
              /\ ~res.polling
              /\ res.status = "OFFLINE"
              /\ res.steps = AllPending
        /\ ~res.tracked => Snapshot = res.pre

Updated == res.fn = "status" /\ res.n > 0
StepElapsed == res.now - res.o.step_start_time
OverThreshold ==
    \/ res.o.last_status = "loading" /\ StepElapsed > StuckLoading
    \/ res.o.last_status = "connecting" /\ StepElapsed > StuckConnecting

\* C37: after an update of SmartVastStatus, is_stuck is True when the status
\* has been loading for more than 600 s (connecting: more than 120 s) since
\* it last changed; an update that changed the status has restarted the step
\* timer and shows the progress of a step that has just begun; is_stuck is
\* True only while the current status is over its threshold; progress is
\* within 0..95 while loading and within 0..100 always.
C37_StuckDetection ==
    Updated =>
        /\ OverThreshold => res.o.is_stuck
        /\ res.changed =>
              /\ res.o.step_start_time = res.now
              /\ res.o.progress = progress(res.o.last_status, 0)
        /\ res.o.is_stuck => OverThreshold
        /\ res.o.last_status = "loading" =>
              res.o.progress >= 0 /\ res.o.progress <= 95 * Scale
        /\ res.o.progress >= 0 /\ res.o.progress <= 100 * Scale

Synced == arg.fn = "sync" /\ res # NoRes
LocalFiles == { p \in TreePaths : arg.local[p] # NoFile }
InModelFolder(p) == p[1] \in Range(MODEL_FOLDERS)
NewOrOtherSize(p) == arg.drive[p] = NoFile \/ arg.drive[p] # arg.local[p]

\* C38 as stated: sync_models copies a local file exactly when Drive has no
\* file at its relative path or one of another size; it leaves every Drive
\* file without a local file as it is; and after a sync without copy errors a
\* second sync copies nothing and skips every local file.
C38_IncrementalSync ==
    Synced =>
        /\ \A p \in LocalFiles : p \in res.first.tried <=> NewOrOtherSize(p)
        /\ \A p \in TreePaths \ LocalFiles : res.first.drive[p] = arg.drive[p]
        /\ arg.errors = {} =>
              /\ res.second.copied = 0
              /\ res.second.skipped = Cardinality(LocalFiles)

\* C38 amended: the same for the local files under one of the model folders
\* (MODEL_FOLDERS); a local file of the models tree outside these folders is
\* never copied and never counted.
C38_IncrementalSyncOfModelFolders ==
    Synced =>
        /\ \A p \in LocalFiles :
              p \in res.first.tried <=> (InModelFolder(p) /\ NewOrOtherSize(p))
        /\ \A p \in TreePaths :
              (p \notin LocalFiles \/ ~InModelFolder(p)) =>
                  res.first.drive[p] = arg.drive[p]
        /\ arg.errors = {} =>
              /\ res.second.copied = 0
              /\ res.second.tried = {}
              /\ res.second.skipped =
                    Cardinality({ p \in LocalFiles : InModelFolder(p) })
              /\ res.second.drive = res.first.drive

\* C38 witness: one checkpoint is new on Drive and one has another size there,
\* both are copied; the second sync copies nothing and skips both
C38_Witness ==
    /\ Synced
    /\ arg.errors = {}
    /\ arg.local[<<"checkpoints", "a">>] = 1 /\ arg.drive[<<"checkpoints", "a">>] = NoFile
    /\ arg.local[<<"checkpoints", "b">>] = 1 /\ arg.drive[<<"checkpoints", "b">>] = 0
    /\ arg.local[<<"ipadapter", "a">>] = NoFile /\ arg.drive[<<"ipadapter", "a">>] = 1
    /\ res.first.copied = 2 /\ res.first.skipped = 0
    /\ res.first.drive[<<"ipadapter", "a">>] = 1
    /\ res.second.copied = 0 /\ res.second.skipped = 2

====
